---- MODULE Spec2Model ----
(***************************************************************************)
(* Model of the terrain streaming store (TerrainGenerator) and of the zone *)
(* layout pass (LayoutManager::PlaceObjectsInZone).                        *)
(*                                                                         *)
(* Encoding of numbers.  Every float length of the program (positions,     *)
(* heights, distances, scales) is held as an integer number of TENTHS of a *)
(* world unit: 8.0f is 80, 0.5f is 5, 100.0f is 1000, -9999.0f is -99990.  *)
(* All inputs are chosen so that the float operations of the code are      *)
(* exact on them (integer chunk scales divisible by chunkSize-1).          *)
(* Comparisons of glm::length(d) against a bound r are made on squares,    *)
(* after a component test that keeps the squares small.                    *)
(* m_noiseScale is held in units of 0.05 (the constructor's value is 1,    *)
(* SetNoiseScale(0.1f) stores 2); m_octaves is the integer itself.         *)
(* glm::simplex is library code: noiseField names the field it computes,   *)
(* with values in tenths, -10 .. 10.                                       *)
(***************************************************************************)
EXTENDS Integers, Sequences, FiniteSets, TLC

VARIABLES
    m_chunkSize,        \* TerrainGenerator::m_chunkSize
    m_chunkScale,       \* TerrainGenerator::m_chunkScale
    m_chunks,           \* TerrainGenerator::m_chunks, in store order
    m_lastCenterPos,    \* TerrainGenerator::m_lastCenterPos
    m_terrainUpdated,   \* TerrainGenerator::m_terrainUpdated
    terrainVertices,    \* the caller's output list of GetCollisionData
    terrainIndices,     \* the caller's output list of GetCollisionData
    op,                 \* the last call made and what it did
    createdSinceAck,    \* a chunk was created since the last ResetTerrainUpdateFlag
    evictedSinceAck,    \* a chunk was evicted since the last ResetTerrainUpdateFlag
    nreq,               \* number of GenerateTerrainAt calls made
    m_noiseScale,       \* TerrainGenerator::m_noiseScale
    m_heightScale,      \* TerrainGenerator::m_heightScale
    m_octaves,          \* TerrainGenerator::m_octaves
    noiseField,         \* the field glm::simplex computes
    nset,               \* number of setter calls made
    placementCall,      \* the TerrainPlacement function called and its arguments
    placementResult,    \* the value that call returned
    searchTrace,        \* FindNearbyFlatPosition: the candidates examined, in order
    m_terrainBodies,    \* PhysicsManager::m_terrainBodies: the meshes cooked
    biomeQuery,         \* the DetermineBiome call made and what it returned
    terrainGenerator,   \* LayoutManager::terrainGenerator is not null
    zones,              \* LayoutManager::zones
    zone,               \* PlaceObjectsInZone: the zone argument
    objects0,           \* the caller's object list when the call was made
    objects,            \* PlaceObjectsInZone: the caller's object list
    usedPositions,      \* PlaceObjectsInZone: local usedPositions
    slot,               \* PlaceObjectsInZone: loop variable i
    attempts,           \* PlaceObjectsInZone: local attempts
    position,           \* PlaceObjectsInZone: local position
    validPosition,      \* PlaceObjectsInZone: local validPosition
    pc                  \* PlaceObjectsInZone: position in the function

terrainVars == <<m_chunkSize, m_chunkScale, m_chunks, m_lastCenterPos,
                 m_terrainUpdated, terrainVertices, terrainIndices, op,
                 createdSinceAck, evictedSinceAck, nreq>>
heightVars == <<m_noiseScale, m_heightScale, m_octaves, noiseField, nset>>
placementVars == <<placementCall, placementResult, searchTrace>>
physicsVars == <<m_terrainBodies>>
biomeVars == <<biomeQuery>>
layoutVars == <<terrainGenerator, zones, zone, objects0, objects, usedPositions, slot,
                attempts, position, validPosition, pc>>
vars == <<m_chunkSize, m_chunkScale, m_chunks, m_lastCenterPos,
          m_terrainUpdated, terrainVertices, terrainIndices, op,
          createdSinceAck, evictedSinceAck, nreq,
          m_noiseScale, m_heightScale, m_octaves, noiseField, nset,
          placementCall, placementResult, searchTrace, m_terrainBodies, biomeQuery,
          terrainGenerator, zones, zone, objects0, objects, usedPositions, slot,
          attempts, position, validPosition, pc>>

----------------------------------------------------------------------------
(* Bounds of the model.                                                    *)

\* number of GenerateTerrainAt calls in one behaviour
MaxRequests == 3

\* number of setter calls in one behaviour
MaxSets == 2

\* number of GenerateTerrainAt calls in one behaviour of SpecParams
MaxParamRequests == 2

\* number of Application::UpdateTerrain calls in one behaviour
MaxTicks == 3

\* constructor arguments (chunkSize, chunkScale): an odd chunk size with the
\* scale 8.0 of Application::InitializeTerrain, and an even chunk size with
\* the scale 64.0
Configs == { [chunkSize |-> 3, chunkScale |-> 80],
             [chunkSize |-> 2, chunkScale |-> 640] }

\* query centers: (3,-3), (3,127), (3,130)
Centers == { [x |-> 30, y |-> -30], [x |-> 30, y |-> 1270], [x |-> 30, y |-> 1300] }

\* points at which GetHeightAt is asked
HeightPoints == { [x |-> 0, y |-> 0], [x |-> 15, y |-> -40] }

----------------------------------------------------------------------------
(* Arithmetic helpers.                                                     *)

Abs(a) == IF a < 0 THEN -a ELSE a

Max(a, b) == IF a >= b THEN a ELSE b

\* static_cast<int>(a / b): the quotient truncated toward zero (b > 0)
TruncDiv(a, b) == IF a >= 0 THEN a \div b ELSE -((-a) \div b)

\* glm::length((dx, dz)) < r, for r >= 0
LengthLess(dx, dz, r) ==
    IF Abs(dx) >= r \/ Abs(dz) >= r THEN FALSE
    ELSE dx * dx + dz * dz < r * r

\* glm::length((dx, dz)) > r, for r >= 0
LengthGreater(dx, dz, r) ==
    IF Abs(dx) > r \/ Abs(dz) > r THEN TRUE
    ELSE dx * dx + dz * dz > r * r

\* the record kept in `op` for a call of the named operation; the fields an
\* operation does not use keep these values
Call(name) == [name |-> name, center |-> [x |-> 0, y |-> 0], accepted |-> FALSE,
               created |-> 0, evicted |-> 0, polled |-> FALSE, height |-> 0,
               prevLen |-> 0]

----------------------------------------------------------------------------
(* Height field.                                                           *)

m_renderDistance == 1000 \* 100.0f

RECURSIVE Pow2(_)
Pow2(i) == IF i <= 0 THEN 1 ELSE 2 * Pow2(i - 1)

\* the fields glm::simplex is taken from: a varying field, the two constant
\* fields at the ends of the range, a field with one step (at u = 10) and a
\* field with a narrow wall (5 <= u <= 10)
NoiseFields == {"hash", "low", "high", "step", "wall"}

\* the value of the named field at (u, v)
NoiseValue(field, u, v) ==
    CASE field = "hash" -> ((3 * u + 5 * v) % 21) - 10
      [] field = "low" -> -10
      [] field = "high" -> 10
      [] field = "step" -> IF u >= 10 THEN 10 ELSE 0
      [] field = "wall" -> IF u >= 5 /\ u <= 10 THEN 10 ELSE 0

\* glm::simplex is library code: a fixed deterministic function of its
\* argument with values in [-1, 1] (here -10 .. 10 tenths).
simplex(u, v) == NoiseValue(noiseField, u, v)

RECURSIVE OctaveSum(_, _, _)
OctaveSum(x, z, i) ==
    IF i >= m_octaves THEN 0
    ELSE TruncDiv(simplex(x * m_noiseScale * Pow2(i), z * m_noiseScale * Pow2(i))
                      * TruncDiv(m_heightScale, Pow2(i)), 10)
         + OctaveSum(x, z, i + 1)

\* variant: the sum is returned without the clamp to the ground level
GetHeightNoise_NoClamp(x, z) == OctaveSum(x, z, 0)

\* groundLevel is -0.1f
GetHeightNoise(x, z) == Max(OctaveSum(x, z, 0), -1)

\* variant: the height is read from the mesh of an active chunk that has a
\* vertex at (x, z), and computed only where there is none
GetHeightAtValue_FromChunks(x, z) ==
    IF \E i \in 1..Len(m_chunks) : \E j \in 1..Len(m_chunks[i].vertices) :
           m_chunks[i].vertices[j].x = x /\ m_chunks[i].vertices[j].z = z
    THEN LET i == CHOOSE i \in 1..Len(m_chunks) :
                    \E j \in 1..Len(m_chunks[i].vertices) :
                        m_chunks[i].vertices[j].x = x /\ m_chunks[i].vertices[j].z = z
             j == CHOOSE j \in 1..Len(m_chunks[i].vertices) :
                    m_chunks[i].vertices[j].x = x /\ m_chunks[i].vertices[j].z = z
         IN  m_chunks[i].vertices[j].y
    ELSE GetHeightNoise(x, z)

GetHeightAtValue(x, z) == GetHeightNoise(x, z)

----------------------------------------------------------------------------
(* Chunk construction.                                                     *)

\* the first pair of loops of GenerateChunkVertices, from vertex number k on
\* (k = z * chunkSize + x): one push_back per grid point
RECURSIVE VertexLoop(_, _, _, _, _)
VertexLoop(n, scale, chunkX, chunkZ, k) ==
    IF k >= n * n THEN << >>
    ELSE LET z == k \div n
             x == k % n
             startX == chunkX * scale
             startZ == chunkZ * scale
             stepSize == scale \div (n - 1)
             worldX == startX + x * stepSize
             worldZ == startZ + z * stepSize
             height == GetHeightNoise(worldX, worldZ)
         IN  <<[x |-> worldX, y |-> height, z |-> worldZ]>>
             \o VertexLoop(n, scale, chunkX, chunkZ, k + 1)

\* the second pair of loops, from cell number k on (k = z * (chunkSize-1) + x):
\* six push_backs per quad
RECURSIVE IndexLoop(_, _)
IndexLoop(n, k) ==
    IF k >= (n - 1) * (n - 1) THEN << >>
    ELSE LET z == k \div (n - 1)
             x == k % (n - 1)
             topLeft == z * n + x
             topRight == topLeft + 1
             bottomLeft == (z + 1) * n + x
             bottomRight == bottomLeft + 1
         IN  <<topLeft, bottomLeft, topRight, topRight, bottomLeft, bottomRight>>
             \o IndexLoop(n, k + 1)

\* variant: the height is sampled at the vertex's offset inside the chunk
\* instead of its world position
GenerateChunkVertices_Local(n, scale, chunkX, chunkZ) ==
    [vertices |-> [k \in 1..(n * n) |->
                      [x |-> chunkX * scale + ((k - 1) % n) * (scale \div (n - 1)),
                       y |-> GetHeightNoise(((k - 1) % n) * (scale \div (n - 1)),
                                            ((k - 1) \div n) * (scale \div (n - 1))),
                       z |-> chunkZ * scale + ((k - 1) \div n) * (scale \div (n - 1))]],
     indices |-> IndexLoop(n, 0),
     isGenerated |-> FALSE]

GenerateChunkVertices(n, scale, chunkX, chunkZ) ==
    [vertices |-> VertexLoop(n, scale, chunkX, chunkZ, 0),
     indices |-> IndexLoop(n, 0),
     isGenerated |-> FALSE]

\* glm::simplex at ((x + 1000) * m_noiseScale * 0.5, (z + 1000) * m_noiseScale * 0.5);
\* the halved argument is taken down to the grid of the field
GetMoistureNoise(x, z) ==
    simplex(((x + 10000) * m_noiseScale) \div 2, ((z + 10000) * m_noiseScale) \div 2)

\* variant: the moisture rules are tried before the height rule
DetermineBiome_MoistureFirst(height, moisture) ==
    IF moisture < -2 THEN "DESERT"
    ELSE IF moisture > 3 THEN "FOREST"
    ELSE IF 10 * height > 6 * m_heightScale THEN "MOUNTAIN"
    ELSE "GRASSLAND"

\* height > m_heightScale * 0.6f, moisture < -0.2f, moisture > 0.3f
DetermineBiome(height, moisture) ==
    IF 10 * height > 6 * m_heightScale THEN "MOUNTAIN"
    ELSE IF moisture < -2 THEN "DESERT"
    ELSE IF moisture > 3 THEN "FOREST"
    ELSE "GRASSLAND"

\* the biome AssignBiomeColors stores in chunk->biome: that of the vertex at
\* vertices.size() / 2 (the vertex colours are not modelled)
AssignBiomeColors(chunk) ==
    chunk @@ [biome |->
        DetermineBiome(chunk.vertices[(Len(chunk.vertices) \div 2) + 1].y,
                       GetMoistureNoise(chunk.vertices[(Len(chunk.vertices) \div 2) + 1].x,
                                        chunk.vertices[(Len(chunk.vertices) \div 2) + 1].z))]

\* the generation parameters as they are now
CurrentParams == [noiseScale |-> m_noiseScale, heightScale |-> m_heightScale,
                  octaves |-> m_octaves]

\* variant: the chunk is stored without being marked ready
CreateChunk_NotReady(n, scale, chunkX, chunkZ) ==
    AssignBiomeColors(GenerateChunkVertices(n, scale, chunkX, chunkZ))
        @@ [params |-> CurrentParams]

\* the chunk record carries, besides the fields of TerrainChunk, the
\* generation parameters it was created with (a history field the program
\* does not store)
CreateChunk(n, scale, chunkX, chunkZ) ==
    [AssignBiomeColors(GenerateChunkVertices(n, scale, chunkX, chunkZ))
         EXCEPT !.isGenerated = TRUE]
        @@ [params |-> CurrentParams]

----------------------------------------------------------------------------
(* TerrainGenerator::GenerateTerrainAt and its helpers.                    *)

\* variant: the threshold is a quarter of the chunk scale
WithinHysteresis_Quarter(centerPos, lastCenterPos, scale) ==
    LengthLess(4 * (centerPos.x - lastCenterPos.x),
               4 * (centerPos.y - lastCenterPos.y), scale)

\* the early return of GenerateTerrainAt: the center moved less than half a
\* chunk scale (glm::length(posDiff) < m_chunkScale * 0.5f, doubled)
WithinHysteresis(centerPos, lastCenterPos, scale) ==
    LengthLess(2 * (centerPos.x - lastCenterPos.x),
               2 * (centerPos.y - lastCenterPos.y), scale)

\* centerChunkX, centerChunkZ
CenterChunk(centerPos, scale) ==
    [x |-> TruncDiv(centerPos.x, scale), z |-> TruncDiv(centerPos.y, scale)]

radius == 3

\* variant: the loops stop one coordinate early (< instead of <=)
WindowCoords_Open(centerChunk) ==
    [k \in 1..((2 * radius) * (2 * radius)) |->
        [x |-> centerChunk.x - radius + ((k - 1) \div (2 * radius)),
         z |-> centerChunk.z - radius + ((k - 1) % (2 * radius))]]

\* the coordinates visited by the two nested loops, in loop order
WindowCoords(centerChunk) ==
    [k \in 1..((2 * radius + 1) * (2 * radius + 1)) |->
        [x |-> centerChunk.x - radius + ((k - 1) \div (2 * radius + 1)),
         z |-> centerChunk.z - radius + ((k - 1) % (2 * radius + 1))]]

\* variant: the stored chunk is located by its middle vertex instead of its
\* first vertex
ChunkMatches_MiddleVertex(chunk, scale, x, z) ==
    /\ Abs(TruncDiv(chunk.vertices[(Len(chunk.vertices) \div 2) + 1].x, scale) - x) < 1
    /\ Abs(TruncDiv(chunk.vertices[(Len(chunk.vertices) \div 2) + 1].z, scale) - z) < 1

\* the comparison of one stored chunk against the coordinate (x, z)
ChunkMatches(chunk, scale, x, z) ==
    /\ Abs(TruncDiv(chunk.vertices[1].x, scale) - x) < 1
    /\ Abs(TruncDiv(chunk.vertices[1].z, scale) - z) < 1

\* the linear scan that sets `exists`
ChunkExists(chunks, scale, x, z) ==
    \E i \in 1..Len(chunks) : ChunkMatches(chunks[i], scale, x, z)

\* the body of the loops from coordinate number k on
RECURSIVE FillWindow(_, _, _, _, _)
FillWindow(chunks, n, scale, coords, k) ==
    IF k > Len(coords) THEN chunks
    ELSE IF ChunkExists(chunks, scale, coords[k].x, coords[k].z)
         THEN FillWindow(chunks, n, scale, coords, k + 1)
         ELSE FillWindow(Append(chunks, CreateChunk(n, scale, coords[k].x, coords[k].z)),
                         n, scale, coords, k + 1)

\* chunkCenter of CleanupDistantChunks: the vertex in the middle of the list
ChunkCenter(chunk) == chunk.vertices[(Len(chunk.vertices) \div 2) + 1]

\* variant: the distance is measured from the first vertex of the chunk
KeepChunk_FirstVertex(chunk, centerPos) ==
    /\ Len(chunk.vertices) > 0
    /\ ~LengthGreater(chunk.vertices[1].x - centerPos.x,
                      chunk.vertices[1].z - centerPos.y,
                      (m_renderDistance * 15) \div 10)

\* variant: the factor is 15 instead of 1.5
KeepChunk_Factor15(chunk, centerPos) ==
    /\ Len(chunk.vertices) > 0
    /\ ~LengthGreater(ChunkCenter(chunk).x - centerPos.x,
                      ChunkCenter(chunk).z - centerPos.y,
                      m_renderDistance * 15)

\* the predicate of remove_if, negated: the chunk stays
KeepChunk(chunk, centerPos) ==
    /\ Len(chunk.vertices) > 0
    /\ ~LengthGreater(ChunkCenter(chunk).x - centerPos.x,
                      ChunkCenter(chunk).z - centerPos.y,
                      (m_renderDistance * 15) \div 10)

CleanupDistantChunks(chunks, centerPos) ==
    SelectSeq(chunks, LAMBDA c : KeepChunk(c, centerPos))

\* variant: the flag is assigned the local instead of being raised
FlagAfterGenerate_Overwrite(updated, newChunksGenerated) == newChunksGenerated

\* the assignment to m_terrainUpdated at the end of GenerateTerrainAt
FlagAfterGenerate(updated, newChunksGenerated) ==
    IF newChunksGenerated THEN TRUE ELSE updated

\* variant: the reference of the hysteresis test follows every call, the
\* ignored ones included
GenerateTerrainAt_TracksEveryCall(centerPos) ==
    /\ nreq < MaxRequests
    /\ nreq' = nreq + 1
    /\ m_lastCenterPos' = centerPos
    /\ IF WithinHysteresis(centerPos, m_lastCenterPos, m_chunkScale)
       THEN /\ op' = [Call("GenerateTerrainAt") EXCEPT !.center = centerPos]
            /\ UNCHANGED <<m_chunks, m_terrainUpdated,
                           createdSinceAck, evictedSinceAck>>
       ELSE \E filled \in {FillWindow(m_chunks, m_chunkSize, m_chunkScale,
                              WindowCoords(CenterChunk(centerPos, m_chunkScale)), 1)} :
            \E kept \in {CleanupDistantChunks(filled, centerPos)} :
            LET created == Len(filled) - Len(m_chunks)
                evicted == Len(filled) - Len(kept)
            IN  /\ m_chunks' = kept
                /\ m_terrainUpdated' = FlagAfterGenerate(m_terrainUpdated, created > 0)
                /\ op' = [Call("GenerateTerrainAt") EXCEPT !.center = centerPos,
                              !.accepted = TRUE, !.created = created,
                              !.evicted = evicted]
                /\ createdSinceAck' = (createdSinceAck \/ created > 0)
                /\ evictedSinceAck' = (evictedSinceAck \/ evicted > 0)
    /\ UNCHANGED <<m_chunkSize, m_chunkScale, terrainVertices, terrainIndices>>
    /\ UNCHANGED <<heightVars, placementVars, layoutVars, physicsVars, biomeVars>>

GenerateTerrainAt(centerPos) ==
    /\ nreq < MaxRequests
    /\ nreq' = nreq + 1
    /\ IF WithinHysteresis(centerPos, m_lastCenterPos, m_chunkScale)
       THEN /\ op' = [Call("GenerateTerrainAt") EXCEPT !.center = centerPos]
            /\ UNCHANGED <<m_chunks, m_lastCenterPos, m_terrainUpdated,
                           createdSinceAck, evictedSinceAck>>
       ELSE \E filled \in {FillWindow(m_chunks, m_chunkSize, m_chunkScale,
                              WindowCoords(CenterChunk(centerPos, m_chunkScale)), 1)} :
            \E kept \in {CleanupDistantChunks(filled, centerPos)} :
            LET created == Len(filled) - Len(m_chunks)
                evicted == Len(filled) - Len(kept)
            IN  /\ m_lastCenterPos' = centerPos
                /\ m_chunks' = kept
                /\ m_terrainUpdated' = FlagAfterGenerate(m_terrainUpdated, created > 0)
                /\ op' = [Call("GenerateTerrainAt") EXCEPT !.center = centerPos,
                              !.accepted = TRUE, !.created = created,
                              !.evicted = evicted]
                /\ createdSinceAck' = (createdSinceAck \/ created > 0)
                /\ evictedSinceAck' = (evictedSinceAck \/ evicted > 0)
    /\ UNCHANGED <<m_chunkSize, m_chunkScale, terrainVertices, terrainIndices>>
    /\ UNCHANGED <<heightVars, placementVars, layoutVars, physicsVars, biomeVars>>

\* what an accepted call returns: filled is m_chunks after the creation
\* loops and kept is m_chunks after CleanupDistantChunks
AcceptedResult(st, centerPos, filled, kept) ==
    [chunks |-> kept, lastCenterPos |-> centerPos,
     terrainUpdated |-> FlagAfterGenerate(st.terrainUpdated, Len(filled) > Len(st.chunks)),
     accepted |-> TRUE, created |-> Len(filled) - Len(st.chunks),
     evicted |-> Len(filled) - Len(kept)]

\* GenerateTerrainAt as a function of the members it reads and writes: st
\* holds m_chunks, m_lastCenterPos and m_terrainUpdated before the call, the
\* result holds them after it, with what the call did
GenerateTerrainAtResult(st, centerPos) ==
    IF WithinHysteresis(centerPos, st.lastCenterPos, m_chunkScale)
    THEN [chunks |-> st.chunks, lastCenterPos |-> st.lastCenterPos,
          terrainUpdated |-> st.terrainUpdated,
          accepted |-> FALSE, created |-> 0, evicted |-> 0]
    ELSE CHOOSE r \in
             UNION { { AcceptedResult(st, centerPos, filled, kept) :
                         kept \in {CleanupDistantChunks(filled, centerPos)} } :
                     filled \in {FillWindow(st.chunks, m_chunkSize, m_chunkScale,
                                    WindowCoords(CenterChunk(centerPos, m_chunkScale)), 1)} } :
             TRUE

----------------------------------------------------------------------------
(* TerrainGenerator::GetCollisionData.                                     *)

\* variant: the offset advances by the number of indices
NextVertexOffset_Indices(vertexOffset, chunk) == vertexOffset + Len(chunk.indices)

\* the new value of vertexOffset after one chunk
NextVertexOffset(vertexOffset, chunk) == vertexOffset + Len(chunk.vertices)

\* the loop over m_chunks for the chunks number lo to hi, in list order; acc
\* holds the two lists and vertexOffset.  The range is walked in two halves,
\* the second starting from what the first leaves
RECURSIVE CollectChunks(_, _, _, _)
CollectChunks(chunks, lo, hi, acc) ==
    IF lo > hi THEN acc
    ELSE IF lo = hi
         THEN IF ~chunks[lo].isGenerated THEN acc
              ELSE [vertices |-> acc.vertices \o chunks[lo].vertices,
                    indices |-> acc.indices \o
                        [i \in 1..Len(chunks[lo].indices) |->
                            chunks[lo].indices[i] + acc.vertexOffset],
                    vertexOffset |-> NextVertexOffset(acc.vertexOffset, chunks[lo])]
         ELSE CHOOSE r \in
                  { CollectChunks(chunks, ((lo + hi) \div 2) + 1, hi, half) :
                      half \in {CollectChunks(chunks, lo, (lo + hi) \div 2, acc)} } : TRUE

\* vertices.clear(); indices.clear();
ClearedLists(vertices, indices) == [vertices |-> << >>, indices |-> << >>]

GetCollisionDataResult(chunks, vertices, indices) ==
    LET acc == CollectChunks(chunks, 1, Len(chunks),
                   ClearedLists(vertices, indices) @@ [vertexOffset |-> 0])
    IN  [vertices |-> acc.vertices, indices |-> acc.indices]

GetCollisionData ==
    /\ LET out == GetCollisionDataResult(m_chunks, terrainVertices, terrainIndices)
       IN  /\ terrainVertices' = out.vertices
           /\ terrainIndices' = out.indices
    /\ op' = [Call("GetCollisionData") EXCEPT !.prevLen = Len(terrainVertices)]
    /\ UNCHANGED <<m_chunkSize, m_chunkScale, m_chunks, m_lastCenterPos,
                   m_terrainUpdated, createdSinceAck, evictedSinceAck, nreq>>
    /\ UNCHANGED <<heightVars, placementVars, layoutVars, physicsVars, biomeVars>>

----------------------------------------------------------------------------
(* HasTerrainUpdated, ResetTerrainUpdateFlag, GetHeightAt.                 *)

\* variant: the reset stores true
ResetValue_True == TRUE

\* the value ResetTerrainUpdateFlag stores
ResetValue == FALSE

HasTerrainUpdated ==
    /\ op' = [Call("HasTerrainUpdated") EXCEPT !.polled = m_terrainUpdated]
    /\ UNCHANGED <<m_chunkSize, m_chunkScale, m_chunks, m_lastCenterPos,
                   m_terrainUpdated, terrainVertices, terrainIndices,
                   createdSinceAck, evictedSinceAck, nreq>>
    /\ UNCHANGED <<heightVars, placementVars, layoutVars, physicsVars, biomeVars>>

ResetTerrainUpdateFlag ==
    /\ m_terrainUpdated' = ResetValue
    /\ createdSinceAck' = FALSE
    /\ evictedSinceAck' = FALSE
    /\ op' = Call("ResetTerrainUpdateFlag")
    /\ UNCHANGED <<m_chunkSize, m_chunkScale, m_chunks, m_lastCenterPos,
                   terrainVertices, terrainIndices, nreq>>
    /\ UNCHANGED <<heightVars, placementVars, layoutVars, physicsVars, biomeVars>>

GetHeightAt ==
    /\ \E c \in HeightPoints :
         op' = [Call("GetHeightAt") EXCEPT !.center = c,
                                         !.height = GetHeightAtValue(c.x, c.y)]
    /\ UNCHANGED <<m_chunkSize, m_chunkScale, m_chunks, m_lastCenterPos,
                   m_terrainUpdated, terrainVertices, terrainIndices,
                   createdSinceAck, evictedSinceAck, nreq>>
    /\ UNCHANGED <<heightVars, placementVars, layoutVars, physicsVars, biomeVars>>

----------------------------------------------------------------------------
(* SetNoiseScale, SetHeightScale, SetOctaves.                              *)

SetNoiseScale(scale) ==
    /\ nset < MaxSets
    /\ nset' = nset + 1
    /\ m_noiseScale' = scale
    /\ op' = Call("SetNoiseScale")
    /\ UNCHANGED <<m_heightScale, m_octaves, noiseField>>
    /\ UNCHANGED <<m_chunkSize, m_chunkScale, m_chunks, m_lastCenterPos,
                   m_terrainUpdated, terrainVertices, terrainIndices,
                   createdSinceAck, evictedSinceAck, nreq>>
    /\ UNCHANGED <<placementVars, layoutVars, physicsVars, biomeVars>>

SetHeightScale(scale) ==
    /\ nset < MaxSets
    /\ nset' = nset + 1
    /\ m_heightScale' = scale
    /\ op' = Call("SetHeightScale")
    /\ UNCHANGED <<m_noiseScale, m_octaves, noiseField>>
    /\ UNCHANGED <<m_chunkSize, m_chunkScale, m_chunks, m_lastCenterPos,
                   m_terrainUpdated, terrainVertices, terrainIndices,
                   createdSinceAck, evictedSinceAck, nreq>>
    /\ UNCHANGED <<placementVars, layoutVars, physicsVars, biomeVars>>

\* variant: the setter discards the chunks so that the next request
\* regenerates them
SetOctaves_DropsChunks(octaves) ==
    /\ nset < MaxSets
    /\ nset' = nset + 1
    /\ m_octaves' = octaves
    /\ m_chunks' = << >>
    /\ m_lastCenterPos' = [x |-> -99990, y |-> -99990]
    /\ op' = Call("SetOctaves")
    /\ UNCHANGED <<m_noiseScale, m_heightScale, noiseField>>
    /\ UNCHANGED <<m_chunkSize, m_chunkScale,
                   m_terrainUpdated, terrainVertices, terrainIndices,
                   createdSinceAck, evictedSinceAck, nreq>>
    /\ UNCHANGED <<placementVars, layoutVars, physicsVars, biomeVars>>

SetOctaves(octaves) ==
    /\ nset < MaxSets
    /\ nset' = nset + 1
    /\ m_octaves' = octaves
    /\ op' = Call("SetOctaves")
    /\ UNCHANGED <<m_noiseScale, m_heightScale, noiseField>>
    /\ UNCHANGED <<m_chunkSize, m_chunkScale, m_chunks, m_lastCenterPos,
                   m_terrainUpdated, terrainVertices, terrainIndices,
                   createdSinceAck, evictedSinceAck, nreq>>
    /\ UNCHANGED <<placementVars, layoutVars, physicsVars, biomeVars>>

----------------------------------------------------------------------------
(* The terrain store: construction and the calls a driver can make.        *)

\* the five zones of CreateZonedLayout
coreZone == [center |-> [x |-> 0, y |-> 0, z |-> 0], radius |-> 80,
             theme |-> "treasure", maxObjects |-> 3, minDistance |-> 20]

forestZone == [center |-> [x |-> 150, y |-> 0, z |-> 150], radius |-> 120,
               theme |-> "forest", maxObjects |-> 6, minDistance |-> 30]

desertZone == [center |-> [x |-> 150, y |-> 0, z |-> -150], radius |-> 120,
               theme |-> "desert", maxObjects |-> 4, minDistance |-> 40]

mountainZone == [center |-> [x |-> -150, y |-> 0, z |-> 150], radius |-> 120,
                 theme |-> "mountain", maxObjects |-> 3, minDistance |-> 50]

grasslandZone == [center |-> [x |-> -150, y |-> 0, z |-> -150], radius |-> 120,
                  theme |-> "grassland", maxObjects |-> 5, minDistance |-> 35]

\* variant: the forest zone is centred at (10, 0, 10)
CreateZonedLayout_NearForest ==
    <<coreZone, [forestZone EXCEPT !.center = [x |-> 100, y |-> 0, z |-> 100]],
      desertZone, mountainZone, grasslandZone>>

\* the vector CreateZonedLayout returns, in push_back order
CreateZonedLayout ==
    <<coreZone, forestZone, desertZone, mountainZone, grasslandZone>>

NoZone == [center |-> [x |-> 0, y |-> 0, z |-> 0], radius |-> 0,
           theme |-> "none", maxObjects |-> 0, minDistance |-> 0]

LayoutIdle ==
    /\ terrainGenerator = TRUE
    /\ zones = CreateZonedLayout
    /\ zone = NoZone
    /\ objects0 = << >>
    /\ objects = << >>
    /\ usedPositions = << >>
    /\ slot = 0
    /\ attempts = 0
    /\ position = [x |-> 0, y |-> 0, z |-> 0]
    /\ validPosition = FALSE
    /\ pc = "idle"

\* no TerrainPlacement function has been called
NoCall == [name |-> "none", position |-> [x |-> 0, y |-> 0, z |-> 0],
           terrain |-> FALSE, arg |-> 0]

PlacementIdle ==
    /\ placementCall = NoCall
    /\ placementResult = [position |-> NoCall.position, flat |-> FALSE]
    /\ searchTrace = << >>

\* PhysicsManager holds no terrain body
PhysicsIdle == m_terrainBodies = << >>

\* DetermineBiome has not been called
BiomeIdle == biomeQuery = [height |-> 0, moisture |-> 0, heightScale |-> 0,
                            biome |-> "none"]

\* the member initialisers of the constructor: m_noiseScale(0.05f),
\* m_heightScale(10.0f), m_octaves(4)
DefaultParams ==
    /\ m_noiseScale = 1
    /\ m_heightScale = 100
    /\ m_octaves = 4
    /\ nset = 0

\* TerrainGenerator::TerrainGenerator
Init ==
    /\ \E cfg \in Configs : /\ m_chunkSize = cfg.chunkSize
                            /\ m_chunkScale = cfg.chunkScale
    /\ m_chunks = << >>
    /\ m_lastCenterPos = [x |-> -99990, y |-> -99990]
    /\ m_terrainUpdated = FALSE
    /\ terrainVertices = << >>
    /\ terrainIndices = << >>
    /\ op = Call("TerrainGenerator")
    /\ createdSinceAck = FALSE
    /\ evictedSinceAck = FALSE
    /\ nreq = 0
    /\ DefaultParams
    /\ noiseField = "hash"
    /\ PlacementIdle
    /\ PhysicsIdle
    /\ BiomeIdle
    /\ LayoutIdle

RequestAt == \E c \in Centers : GenerateTerrainAt(c)

Next ==
    \/ RequestAt
    \/ GetCollisionData
    \/ HasTerrainUpdated
    \/ ResetTerrainUpdateFlag
    \/ GetHeightAt

Spec == Init /\ [][Next]_vars

----------------------------------------------------------------------------
(* The terrain store with its generation parameters changed at run time.   *)

\* query centers one chunk apart: (3,-3) and (8.3,-3)
ParamCenters == { [x |-> 30, y |-> -30], [x |-> 83, y |-> -30] }

\* arguments of the setters: the values Application::InitializeTerrain
\* passes for the two scales (0.1, 2.0), and octave counts of 0 and less
NoiseScales == {2}
HeightScales == {20}
OctaveCounts == {0, -1}

\* TerrainGenerator(2, 8.0f)
InitParams ==
    /\ m_chunkSize = 2
    /\ m_chunkScale = 80
    /\ m_chunks = << >>
    /\ m_lastCenterPos = [x |-> -99990, y |-> -99990]
    /\ m_terrainUpdated = FALSE
    /\ terrainVertices = << >>
    /\ terrainIndices = << >>
    /\ op = Call("TerrainGenerator")
    /\ createdSinceAck = FALSE
    /\ evictedSinceAck = FALSE
    /\ nreq = 0
    /\ DefaultParams
    /\ noiseField = "hash"
    /\ PlacementIdle
    /\ PhysicsIdle
    /\ BiomeIdle
    /\ LayoutIdle

NextParams ==
    \/ \E c \in ParamCenters : nreq < MaxParamRequests /\ GenerateTerrainAt(c)
    \/ \E scale \in NoiseScales : SetNoiseScale(scale)
    \/ \E scale \in HeightScales : SetHeightScale(scale)
    \/ \E octaves \in OctaveCounts : SetOctaves(octaves)
    \/ ResetTerrainUpdateFlag
    \/ GetHeightAt

SpecParams == InitParams /\ [][NextParams]_vars

\* the store under requests that evict, setter calls and collision queries
ChunkCenters == { [x |-> 30, y |-> -30], [x |-> 30, y |-> 1270] }

NextChunks ==
    \/ \E c \in ChunkCenters : GenerateTerrainAt(c)
    \/ SetOctaves(0)
    \/ GetCollisionData

SpecChunks == InitParams /\ [][NextChunks]_vars

----------------------------------------------------------------------------
(* The terrain store under a center that drifts: every request is made at  *)
(* the center of the request before (the origin for the first one) moved   *)
(* by less than half a chunk scale.                                        *)

\* the displacement between two consecutive requests: none, 3.0 along an
\* axis, or 2.0 along both
Moves == { [x |-> 0, y |-> 0], [x |-> 30, y |-> 0], [x |-> -30, y |-> 0],
           [x |-> 0, y |-> 30], [x |-> 0, y |-> -30],
           [x |-> 20, y |-> 20], [x |-> -20, y |-> -20] }

DriftRequest ==
    \E d \in Moves :
        GenerateTerrainAt([x |-> op.center.x + d.x, y |-> op.center.y + d.y])

NextDrift == DriftRequest

SpecDrift == InitParams /\ [][NextDrift]_vars

----------------------------------------------------------------------------
(* The consumer of the terrain store: Application::InitializeTerrain and   *)
(* Application::UpdateTerrain, with the terrain bodies of PhysicsManager.  *)
(* A body is held as the vertex and index lists its mesh was cooked from.  *)

\* PhysicsManager::CreateTerrainCollision: one more body, unless a list is
\* empty
CreateTerrainCollision(bodies, vertices, indices) ==
    IF Len(vertices) = 0 \/ Len(indices) = 0 THEN bodies
    ELSE Append(bodies, [vertices |-> vertices, indices |-> indices])

\* PhysicsManager::ClearTerrainCollision: every body is removed and released
ClearTerrainCollision(bodies) == << >>

\* the x and z of the camera when InitializeTerrain runs: Camera(0, 2, 3)
StartCamera == [x |-> 0, y |-> 30]

\* the x and z of the camera in the later frames
AppCameras == { [x |-> 0, y |-> 30], [x |-> 30, y |-> -30], [x |-> 30, y |-> 1270],
                [x |-> 30, y |-> 1300], [x |-> 830, y |-> -30],
                [x |-> 830, y |-> 1270] }

\* TerrainGenerator(2, 8.0f) as Application::InitializeTerrain has it after
\* SetNoiseScale(0.1f), SetHeightScale(2.0f) and SetOctaves(3)
InitApp ==
    /\ m_chunkSize = 2
    /\ m_chunkScale = 80
    /\ m_chunks = << >>
    /\ m_lastCenterPos = [x |-> -99990, y |-> -99990]
    /\ m_terrainUpdated = FALSE
    /\ terrainVertices = << >>
    /\ terrainIndices = << >>
    /\ op = Call("SetOctaves")
    /\ createdSinceAck = FALSE
    /\ evictedSinceAck = FALSE
    /\ nreq = 0
    /\ m_noiseScale = 2
    /\ m_heightScale = 20
    /\ m_octaves = 3
    /\ nset = 3
    /\ noiseField = "hash"
    /\ PlacementIdle
    /\ PhysicsIdle
    /\ BiomeIdle
    /\ LayoutIdle

\* the rest of Application::InitializeTerrain: the first request, at the
\* camera's position, and the first terrain body; the flag is not reset
InitializeTerrain ==
    /\ nreq = 0
    /\ nreq' = 1
    /\ \E st0 \in {[chunks |-> m_chunks, lastCenterPos |-> m_lastCenterPos,
                       terrainUpdated |-> m_terrainUpdated]} :
       \E r \in {GenerateTerrainAtResult(st0, StartCamera)} :
         /\ m_chunks' = r.chunks
         /\ m_lastCenterPos' = r.lastCenterPos
         /\ m_terrainUpdated' = r.terrainUpdated
         /\ op' = [Call("InitializeTerrain") EXCEPT !.center = StartCamera,
                       !.accepted = r.accepted, !.created = r.created,
                       !.evicted = r.evicted]
         /\ createdSinceAck' = (createdSinceAck \/ r.created > 0)
         /\ evictedSinceAck' = (evictedSinceAck \/ r.evicted > 0)
    /\ \E out \in {GetCollisionDataResult(m_chunks', << >>, << >>)} :
         m_terrainBodies' =
               CreateTerrainCollision(m_terrainBodies, out.vertices, out.indices)
    /\ UNCHANGED <<m_chunkSize, m_chunkScale, terrainVertices, terrainIndices>>
    /\ UNCHANGED <<heightVars, placementVars, layoutVars, biomeVars>>

\* Application::UpdateTerrain for one frame: UpdateLOD (which is a request),
\* the request, and when the flag is up the rebuild of the terrain body from
\* lists that are local to the call, followed by ResetTerrainUpdateFlag
UpdateTerrain(cameraPos) ==
    /\ nreq > 0
    /\ nreq + 2 <= 1 + 2 * MaxTicks
    /\ nreq' = nreq + 2
    /\ \E st0 \in {[chunks |-> m_chunks, lastCenterPos |-> m_lastCenterPos,
                       terrainUpdated |-> m_terrainUpdated]} :
       \E r1 \in {GenerateTerrainAtResult(st0, cameraPos)} :
       \E r2 \in {GenerateTerrainAtResult(r1, cameraPos)} :
         /\ m_chunks' = r2.chunks
         /\ m_lastCenterPos' = r2.lastCenterPos
         /\ op' = [Call("UpdateTerrain") EXCEPT !.center = cameraPos,
                       !.accepted = (r1.accepted \/ r2.accepted),
                       !.created = r1.created + r2.created,
                       !.evicted = r1.evicted + r2.evicted,
                       !.polled = r2.terrainUpdated]
         /\ IF r2.terrainUpdated
            THEN /\ m_terrainUpdated' = ResetValue
                 /\ createdSinceAck' = FALSE
                 /\ evictedSinceAck' = FALSE
            ELSE /\ m_terrainUpdated' = r2.terrainUpdated
                 /\ createdSinceAck' = (createdSinceAck \/ r1.created + r2.created > 0)
                 /\ evictedSinceAck' = (evictedSinceAck \/ r1.evicted + r2.evicted > 0)
    /\ IF op'.polled
       THEN \E out \in {GetCollisionDataResult(m_chunks', << >>, << >>)} :
              m_terrainBodies' =
                  CreateTerrainCollision(ClearTerrainCollision(m_terrainBodies),
                                         out.vertices, out.indices)
       ELSE UNCHANGED m_terrainBodies
    /\ UNCHANGED <<m_chunkSize, m_chunkScale, terrainVertices, terrainIndices>>
    /\ UNCHANGED <<heightVars, placementVars, layoutVars, biomeVars>>

NextApp ==
    \/ InitializeTerrain
    \/ \E c \in AppCameras : UpdateTerrain(c)

SpecApp == InitApp /\ [][NextApp]_vars

----------------------------------------------------------------------------
(* TerrainPlacement::PlaceOnTerrain and the helpers of LayoutManager.      *)

\* variant: the height is added to the input's y instead of replacing it
PlaceOnTerrain_AddToY(pos, terrain, objectHeight) ==
    IF ~terrain THEN pos
    ELSE LET terrainHeight == GetHeightAtValue(pos.x, pos.z)
             safetyOffset == 10
             minHeight == 5
             y == pos.y + terrainHeight + objectHeight + safetyOffset
         IN  [pos EXCEPT !.y = IF y < minHeight THEN minHeight ELSE y]

\* terrain is TRUE for a non-null TerrainGenerator*
PlaceOnTerrain(pos, terrain, objectHeight) ==
    IF ~terrain THEN pos
    ELSE LET terrainHeight == GetHeightAtValue(pos.x, pos.z)
             safetyOffset == 10
             minHeight == 5
             y == terrainHeight + objectHeight + safetyOffset
         IN  [pos EXCEPT !.y = IF y < minHeight THEN minHeight ELSE y]

\* a / b rounded to the nearest integer (b > 0)
RoundDiv(a, b) == IF a >= 0 THEN (2 * a + b) \div (2 * b)
                  ELSE -((2 * (-a) + b) \div (2 * b))

\* cos and sin of the angle 2 * pi * i / 8, in thousandths
Cos8(i) == <<1000, 707, 0, -707, -1000, -707, 0, 707>>[i + 1]
Sin8(i) == <<0, 707, 1000, 707, 0, -707, -1000, -707>>[i + 1]

\* cos and sin of the angle 30 * j degrees, in thousandths
Cos12(j) == <<1000, 866, 500, 0, -500, -866, -1000, -866, -500, 0, 500, 866>>[j + 1]
Sin12(j) == <<0, 500, 866, 1000, 866, 500, 0, -500, -866, -1000, -866, -500>>[j + 1]

checkPoints == 8

\* the loop of GetAreaHeightVariation from sample i on
RECURSIVE VariationLoop(_, _, _, _, _)
VariationLoop(center, checkRadius, centerHeight, i, maxDiff) ==
    IF i >= checkPoints THEN maxDiff
    ELSE LET checkX == center.x + RoundDiv(checkRadius * Cos8(i), 1000)
             checkZ == center.z + RoundDiv(checkRadius * Sin8(i), 1000)
             checkHeight == GetHeightAtValue(checkX, checkZ)
             heightDiff == Abs(checkHeight - centerHeight)
         IN  VariationLoop(center, checkRadius, centerHeight, i + 1,
                           Max(maxDiff, heightDiff))

\* variant: maxDiff is assigned the difference of the sample instead of the
\* maximum, so that the last sample decides
GetAreaHeightVariation_LastSample(center, terrain, checkRadius) ==
    IF ~terrain THEN 0
    ELSE Abs(GetHeightAtValue(center.x + RoundDiv(checkRadius * Cos8(checkPoints - 1), 1000),
                              center.z + RoundDiv(checkRadius * Sin8(checkPoints - 1), 1000))
             - GetHeightAtValue(center.x, center.z))

GetAreaHeightVariation(center, terrain, checkRadius) ==
    IF ~terrain THEN 0
    ELSE VariationLoop(center, checkRadius,
                       GetHeightAtValue(center.x, center.z), 0, 0)

\* variant: the comparison with the tolerance is strict
IsPositionFlat_Strict(pos, terrain, tolerance) ==
    IF ~terrain THEN FALSE
    ELSE GetAreaHeightVariation(pos, terrain, 20) < tolerance

\* variant: the null test is left to GetAreaHeightVariation
IsPositionFlat_NoNullTest(pos, terrain, tolerance) ==
    GetAreaHeightVariation(pos, terrain, 20) <= tolerance

IsPositionFlat(pos, terrain, tolerance) ==
    IF ~terrain THEN FALSE
    ELSE GetAreaHeightVariation(pos, terrain, 20) <= tolerance

\* variant: the loops run to their end and the best candidate is returned
\* then, whatever its variation
RECURSIVE SearchLoop_NoEarlyReturn(_, _, _, _, _)
SearchLoop_NoEarlyReturn(center, terrain, searchRadius, k, st) ==
    LET rad == 10 * ((k \div 12) + 1)
        j == k % 12
    IN  IF rad > searchRadius THEN st
        ELSE LET testPos == [center EXCEPT
                                !.x = center.x + RoundDiv(rad * Cos12(j), 1000),
                                !.z = center.z + RoundDiv(rad * Sin12(j), 1000)]
                 variation == GetAreaHeightVariation(testPos, terrain, 15)
                 examined == Append(st.examined, testPos)
             IN  IF variation < st.minVariation
                 THEN SearchLoop_NoEarlyReturn(center, terrain, searchRadius, k + 1,
                          [bestPosition |-> [testPos EXCEPT
                               !.y = GetHeightAtValue(testPos.x, testPos.z)],
                           minVariation |-> variation, examined |-> examined])
                 ELSE SearchLoop_NoEarlyReturn(center, terrain, searchRadius, k + 1,
                          [st EXCEPT !.examined = examined])

\* variant: a candidate that ties with the best one replaces it
RECURSIVE SearchLoop_LatestOfTies(_, _, _, _, _)
SearchLoop_LatestOfTies(center, terrain, searchRadius, k, st) ==
    LET rad == 10 * ((k \div 12) + 1)
        j == k % 12
    IN  IF rad > searchRadius THEN st
        ELSE LET testPos == [center EXCEPT
                                !.x = center.x + RoundDiv(rad * Cos12(j), 1000),
                                !.z = center.z + RoundDiv(rad * Sin12(j), 1000)]
                 variation == GetAreaHeightVariation(testPos, terrain, 15)
                 examined == Append(st.examined, testPos)
             IN  IF variation <= st.minVariation
                 THEN LET found == [bestPosition |-> [testPos EXCEPT
                                        !.y = GetHeightAtValue(testPos.x, testPos.z)],
                                    minVariation |-> variation, examined |-> examined]
                      IN  IF variation <= 3 THEN found
                          ELSE SearchLoop_LatestOfTies(center, terrain, searchRadius,
                                                       k + 1, found)
                 ELSE SearchLoop_LatestOfTies(center, terrain, searchRadius, k + 1,
                          [st EXCEPT !.examined = examined])

\* the two nested loops of FindNearbyFlatPosition from step k on
\* (k = 12 * (radius - 1) + angle / 30, rad is the loop's radius in tenths);
\* st holds bestPosition and minVariation, and the list of the positions
\* testPos the loop has passed to GetAreaHeightVariation
RECURSIVE SearchLoop(_, _, _, _, _)
SearchLoop(center, terrain, searchRadius, k, st) ==
    LET rad == 10 * ((k \div 12) + 1)
        j == k % 12
    IN  IF rad > searchRadius THEN st
        ELSE LET testPos == [center EXCEPT
                                !.x = center.x + RoundDiv(rad * Cos12(j), 1000),
                                !.z = center.z + RoundDiv(rad * Sin12(j), 1000)]
                 variation == GetAreaHeightVariation(testPos, terrain, 15)
                 examined == Append(st.examined, testPos)
             IN  IF variation < st.minVariation
                 THEN LET found == [bestPosition |-> [testPos EXCEPT
                                        !.y = GetHeightAtValue(testPos.x, testPos.z)],
                                    minVariation |-> variation, examined |-> examined]
                      IN  IF variation <= 3 THEN found
                          ELSE SearchLoop(center, terrain, searchRadius, k + 1, found)
                 ELSE SearchLoop(center, terrain, searchRadius, k + 1,
                          [st EXCEPT !.examined = examined])

\* FindNearbyFlatPosition with what it has examined: bestPosition is the
\* value returned
FindNearbyFlatSearch(center, terrain, searchRadius) ==
    IF ~terrain THEN [bestPosition |-> center, minVariation |-> 0, examined |-> << >>]
    ELSE LET centerHeight == GetHeightAtValue(center.x, center.z)
             st == [bestPosition |-> [center EXCEPT !.y = centerHeight],
                    minVariation |-> GetAreaHeightVariation(center, terrain, 15),
                    examined |-> << >>]
         IN  IF st.minVariation <= 3 THEN st
             ELSE SearchLoop(center, terrain, searchRadius, 0, st)

FindNearbyFlatPosition(center, terrain, searchRadius) ==
    FindNearbyFlatSearch(center, terrain, searchRadius).bestPosition

\* variant: only the z coordinate is compared with the bound
IsWithinTerrainBounds_ZOnly(pos) ==
    LET terrainSize == 400
    IN  Abs(pos.z) <= terrainSize

IsWithinTerrainBounds(pos) ==
    LET terrainSize == 400
    IN  Abs(pos.x) <= terrainSize /\ Abs(pos.z) <= terrainSize

\* length(newPos - pos) < minDist
TooClose(newPos, pos, minDist) ==
    LET dx == newPos.x - pos.x
        dy == newPos.y - pos.y
        dz == newPos.z - pos.z
    IN  dx * dx + dy * dy + dz * dz < minDist * minDist

\* variant: only the most recent position is compared
CheckMinimumDistance_LastOnly(newPos, existingPositions, minDist) ==
    \/ Len(existingPositions) = 0
    \/ ~TooClose(newPos, existingPositions[Len(existingPositions)], minDist)

CheckMinimumDistance(newPos, existingPositions, minDist) ==
    \A i \in 1..Len(existingPositions) :
        ~TooClose(newPos, existingPositions[i], minDist)

maxAttempts == 50

----------------------------------------------------------------------------
(* LayoutManager::PlaceObjectsInZone, one loop step per action.            *)

\* a zone that reaches over the terrain bound: center (37,0,0), radius 8
edgeZone == [center |-> [x |-> 370, y |-> 0, z |-> 0], radius |-> 80,
             theme |-> "forest", maxObjects |-> 2, minDistance |-> 35]

Zones == {coreZone, edgeZone}

\* the offsets radius * (cos(angle), sin(angle)) the random draws are taken
\* from: the points of a grid that lie in the band 0.3 .. 0.9 of the radius
OffsetGrid == {30, 45}

Offsets(z) ==
    { o \in [x : OffsetGrid, z : OffsetGrid] :
        /\ 100 * (o.x * o.x + o.z * o.z) >= 9 * z.radius * z.radius
        /\ 100 * (o.x * o.x + o.z * o.z) <= 81 * z.radius * z.radius }

\* values of angleDist(gen) used for the yaw of an object
Yaws == {0, 31}

\* the object types the theme allows
TypesOf(theme) ==
    IF theme = "treasure" THEN {"chest", "key"}
    ELSE {"chest", "key", "decoration"}

\* an object placed by an earlier call for another zone
earlierObject == [position |-> [x |-> 35, y |-> 16, z |-> 30],
                  rotation |-> [x |-> 0, y |-> 0, z |-> 0],
                  scale |-> [x |-> 10, y |-> 10, z |-> 10],
                  type |-> "key", theme |-> "desert"]

\* entry of PlaceObjectsInZone(zone, objects)
InitLayout ==
    /\ m_chunkSize = 3
    /\ m_chunkScale = 80
    /\ m_chunks = << >>
    /\ m_lastCenterPos = [x |-> -99990, y |-> -99990]
    /\ m_terrainUpdated = FALSE
    /\ terrainVertices = << >>
    /\ terrainIndices = << >>
    /\ op = Call("PlaceObjectsInZone")
    /\ createdSinceAck = FALSE
    /\ evictedSinceAck = FALSE
    /\ nreq = 0
    /\ DefaultParams
    /\ noiseField = "hash"
    /\ PlacementIdle
    /\ PhysicsIdle
    /\ BiomeIdle
    /\ terrainGenerator \in BOOLEAN
    /\ zones = CreateZonedLayout
    /\ zone \in Zones
    /\ objects0 \in {<< >>, <<earlierObject>>}
    /\ objects = objects0
    /\ usedPositions = << >>
    /\ slot = 0
    /\ attempts = 0
    /\ position = [x |-> 0, y |-> 0, z |-> 0]
    /\ validPosition = FALSE
    /\ pc = "for"

\* the head of the for loop, entering the body
BeginSlot ==
    /\ pc = "for"
    /\ slot < zone.maxObjects
    /\ validPosition' = FALSE
    /\ attempts' = 0
    /\ pc' = "while"
    /\ UNCHANGED <<terrainGenerator, zones, zone, objects0, objects, usedPositions,
                   slot, position>>
    /\ UNCHANGED <<terrainVars, heightVars, placementVars, physicsVars, biomeVars>>

\* variant: a candidate outside the terrain bound is retried without being
\* counted
Attempt_SkipCount ==
    /\ pc = "while"
    /\ ~validPosition /\ attempts < maxAttempts
    /\ \E o \in Offsets(zone) :
         LET candidate == [x |-> zone.center.x + o.x, y |-> zone.center.y,
                           z |-> zone.center.z + o.z]
             placed == PlaceOnTerrain(candidate, terrainGenerator, 5)
         IN  IF IsWithinTerrainBounds(candidate)
             THEN /\ position' = placed
                  /\ attempts' = attempts + 1
                  /\ IF CheckMinimumDistance(placed, usedPositions, zone.minDistance)
                     THEN /\ validPosition' = TRUE
                          /\ usedPositions' = Append(usedPositions, placed)
                     ELSE UNCHANGED <<validPosition, usedPositions>>
             ELSE /\ position' = candidate
                  /\ UNCHANGED <<validPosition, usedPositions, attempts>>
    /\ UNCHANGED <<terrainGenerator, zones, zone, objects0, objects, slot, pc>>
    /\ UNCHANGED <<terrainVars, heightVars, placementVars, physicsVars, biomeVars>>

\* variant: the spacing check also counts the positions of the objects that
\* are in the caller's list
Attempt_CheckObjects ==
    /\ pc = "while"
    /\ ~validPosition /\ attempts < maxAttempts
    /\ \E o \in Offsets(zone) :
         LET candidate == [x |-> zone.center.x + o.x, y |-> zone.center.y,
                           z |-> zone.center.z + o.z]
             placed == PlaceOnTerrain(candidate, terrainGenerator, 5)
             listed == [i \in 1..Len(objects) |-> objects[i].position]
         IN  IF IsWithinTerrainBounds(candidate)
             THEN /\ position' = placed
                  /\ IF CheckMinimumDistance(placed, listed \o usedPositions,
                                             zone.minDistance)
                     THEN /\ validPosition' = TRUE
                          /\ usedPositions' = Append(usedPositions, placed)
                     ELSE UNCHANGED <<validPosition, usedPositions>>
             ELSE /\ position' = candidate
                  /\ UNCHANGED <<validPosition, usedPositions>>
    /\ attempts' = attempts + 1
    /\ UNCHANGED <<terrainGenerator, zones, zone, objects0, objects, slot, pc>>
    /\ UNCHANGED <<terrainVars, heightVars, placementVars, physicsVars, biomeVars>>

\* one iteration of the while loop
Attempt ==
    /\ pc = "while"
    /\ ~validPosition /\ attempts < maxAttempts
    /\ \E o \in Offsets(zone) :
         LET candidate == [x |-> zone.center.x + o.x, y |-> zone.center.y,
                           z |-> zone.center.z + o.z]
             placed == PlaceOnTerrain(candidate, terrainGenerator, 5)
         IN  IF IsWithinTerrainBounds(candidate)
             THEN /\ position' = placed
                  /\ IF CheckMinimumDistance(placed, usedPositions, zone.minDistance)
                     THEN /\ validPosition' = TRUE
                          /\ usedPositions' = Append(usedPositions, placed)
                     ELSE UNCHANGED <<validPosition, usedPositions>>
             ELSE /\ position' = candidate
                  /\ UNCHANGED <<validPosition, usedPositions>>
    /\ attempts' = attempts + 1
    /\ UNCHANGED <<terrainGenerator, zones, zone, objects0, objects, slot, pc>>
    /\ UNCHANGED <<terrainVars, heightVars, placementVars, physicsVars, biomeVars>>

\* the end of the while loop and the rest of the for body
EndSlot ==
    /\ pc = "while"
    /\ ~(~validPosition /\ attempts < maxAttempts)
    /\ IF validPosition
       THEN \E yaw \in Yaws : \E type \in TypesOf(zone.theme) :
              objects' = Append(objects,
                  [position |-> position,
                   rotation |-> [x |-> 0, y |-> yaw, z |-> 0],
                   scale |-> [x |-> 10, y |-> 10, z |-> 10],
                   type |-> type, theme |-> zone.theme])
       ELSE UNCHANGED objects
    /\ slot' = slot + 1
    /\ pc' = "for"
    /\ UNCHANGED <<terrainGenerator, zones, zone, objects0, usedPositions, attempts,
                   position, validPosition>>
    /\ UNCHANGED <<terrainVars, heightVars, placementVars, physicsVars, biomeVars>>

\* the for loop ends and the function returns
Return ==
    /\ pc = "for"
    /\ slot >= zone.maxObjects
    /\ pc' = "done"
    /\ UNCHANGED <<terrainGenerator, zones, zone, objects0, objects, usedPositions,
                   slot, attempts, position, validPosition>>
    /\ UNCHANGED <<terrainVars, heightVars, placementVars, physicsVars, biomeVars>>

\* InitializeDefaultLayout, called again after the pass has returned
InitializeDefaultLayout ==
    /\ pc = "done"
    /\ zones' = CreateZonedLayout
    /\ op' = Call("InitializeDefaultLayout")
    /\ UNCHANGED <<terrainGenerator, zone, objects0, objects, usedPositions,
                   slot, attempts, position, validPosition, pc>>
    /\ UNCHANGED <<m_chunkSize, m_chunkScale, m_chunks, m_lastCenterPos,
                   m_terrainUpdated, terrainVertices, terrainIndices,
                   createdSinceAck, evictedSinceAck, nreq>>
    /\ UNCHANGED <<heightVars, placementVars, physicsVars, biomeVars>>

NextLayout ==
    \/ BeginSlot
    \/ Attempt
    \/ EndSlot
    \/ Return
    \/ InitializeDefaultLayout

SpecLayout == InitLayout /\ [][NextLayout]_vars

----------------------------------------------------------------------------
(* The functions of TerrainPlacement, called on a terrain whose parameters *)
(* and noise field are drawn at the start.                                 *)

\* positions passed to the placement functions
PlacementPositions == { [x |-> 0, y |-> 0, z |-> 0],
                        [x |-> 0, y |-> 70, z |-> 0],
                        [x |-> -5, y |-> 0, z |-> 0],
                        [x |-> 15, y |-> -30, z |-> -40] }

\* objectHeight arguments: 0.5 (the value PlaceObjectsInZone passes), 1.0, -3.0
ObjectHeights == {5, 10, -30}

\* tolerance arguments: 0, 0.5, 0.8 (the values IsPositionSuitable passes),
\* 9.9, 10
Tolerances == {0, 5, 8, 99, 100}

\* searchRadius arguments: 0.5, 2.0, 2.5
SearchRadii == {5, 20, 25}

\* generation parameters of the terrain the functions are called with
PlacementParams == { [noiseScale |-> 1, heightScale |-> 100, octaves |-> 4],
                     [noiseScale |-> 1, heightScale |-> 100, octaves |-> 1],
                     [noiseScale |-> 2, heightScale |-> 20, octaves |-> 3],
                     [noiseScale |-> 1, heightScale |-> 100, octaves |-> 0] }

InitPlacement ==
    /\ m_chunkSize = 3
    /\ m_chunkScale = 80
    /\ m_chunks = << >>
    /\ m_lastCenterPos = [x |-> -99990, y |-> -99990]
    /\ m_terrainUpdated = FALSE
    /\ terrainVertices = << >>
    /\ terrainIndices = << >>
    /\ op = Call("TerrainGenerator")
    /\ createdSinceAck = FALSE
    /\ evictedSinceAck = FALSE
    /\ nreq = 0
    /\ \E p \in PlacementParams : /\ m_noiseScale = p.noiseScale
                                  /\ m_heightScale = p.heightScale
                                  /\ m_octaves = p.octaves
    /\ nset = 0
    /\ noiseField \in NoiseFields
    /\ PlacementIdle
    /\ PhysicsIdle
    /\ BiomeIdle
    /\ LayoutIdle

CallPlaceOnTerrain ==
    /\ \E pos \in PlacementPositions : \E terrain \in BOOLEAN :
       \E objectHeight \in ObjectHeights :
         /\ placementCall' = [name |-> "PlaceOnTerrain", position |-> pos,
                              terrain |-> terrain, arg |-> objectHeight]
         /\ placementResult' = [position |-> PlaceOnTerrain(pos, terrain, objectHeight),
                                flat |-> FALSE]
         /\ searchTrace' = << >>
    /\ UNCHANGED <<terrainVars, heightVars, layoutVars, physicsVars, biomeVars>>

CallIsPositionFlat ==
    /\ \E pos \in PlacementPositions : \E terrain \in BOOLEAN :
       \E tolerance \in Tolerances :
         /\ placementCall' = [name |-> "IsPositionFlat", position |-> pos,
                              terrain |-> terrain, arg |-> tolerance]
         /\ placementResult' = [position |-> pos,
                                flat |-> IsPositionFlat(pos, terrain, tolerance)]
         /\ searchTrace' = << >>
    /\ UNCHANGED <<terrainVars, heightVars, layoutVars, physicsVars, biomeVars>>

CallFindNearbyFlatPosition ==
    /\ \E pos \in PlacementPositions : \E terrain \in BOOLEAN :
       \E searchRadius \in SearchRadii :
         /\ placementCall' = [name |-> "FindNearbyFlatPosition", position |-> pos,
                              terrain |-> terrain, arg |-> searchRadius]
         /\ \E r \in {FindNearbyFlatSearch(pos, terrain, searchRadius)} :
              /\ placementResult' = [position |-> r.bestPosition, flat |-> FALSE]
              /\ searchTrace' = r.examined
    /\ UNCHANGED <<terrainVars, heightVars, layoutVars, physicsVars, biomeVars>>

NextPlacement ==
    \/ CallPlaceOnTerrain
    \/ CallIsPositionFlat
    \/ CallFindNearbyFlatPosition

SpecPlacement == InitPlacement /\ [][NextPlacement]_vars

----------------------------------------------------------------------------
(* TerrainGenerator::DetermineBiome, called with heights and moistures on  *)
(* both sides of its thresholds.                                           *)

\* height arguments: -0.1, 0, 1.2, 1.3, 6.0, 6.1, 10.0
BiomeHeights == {-1, 0, 12, 13, 60, 61, 100}

\* moisture arguments: -1, -0.3, -0.2, -0.1, 0, 0.3, 0.4, 1
Moistures == {-10, -3, -2, -1, 0, 3, 4, 10}

CallDetermineBiome ==
    /\ \E height \in BiomeHeights : \E moisture \in Moistures :
         biomeQuery' = [height |-> height, moisture |-> moisture,
                        heightScale |-> m_heightScale,
                        biome |-> DetermineBiome(height, moisture)]
    /\ UNCHANGED <<terrainVars, heightVars, placementVars, layoutVars, physicsVars>>

NextBiome ==
    \/ CallDetermineBiome
    \/ \E scale \in HeightScales : SetHeightScale(scale)

SpecBiome == InitParams /\ [][NextBiome]_vars

----------------------------------------------------------------------------
(* Vocabulary of the properties.                                           *)

Sentinel == [x |-> -99990, y |-> -99990]

\* the grid coordinate of a stored chunk: floor(origin / chunkScale)
GridCoord(chunk) == [x |-> chunk.vertices[1].x \div m_chunkScale,
                     z |-> chunk.vertices[1].z \div m_chunkScale]

ActiveCoords == { GridCoord(m_chunks[i]) : i \in 1..Len(m_chunks) }

\* the eviction distance, 1.5 x renderDistance
EvictionDistance == (3 * m_renderDistance) \div 2

\* the representative position of the chunk is farther than the eviction
\* distance from the point c
BeyondEviction(chunk, c) ==
    LET rep == chunk.vertices[(Len(chunk.vertices) \div 2) + 1]
        dx == rep.x - c.x
        dz == rep.z - c.y
    IN  \/ Abs(dx) > EvictionDistance
        \/ Abs(dz) > EvictionDistance
        \/ dx * dx + dz * dz > EvictionDistance * EvictionDistance

\* the point c is less than half a chunk scale from the point l
LessThanHalfScale(c, l) ==
    /\ 2 * Abs(c.x - l.x) < m_chunkScale
    /\ 2 * Abs(c.y - l.y) < m_chunkScale
    /\ 4 * ((c.x - l.x) * (c.x - l.x) + (c.y - l.y) * (c.y - l.y))
           < m_chunkScale * m_chunkScale

IsRequest(o) == o.name = "GenerateTerrainAt"

----------------------------------------------------------------------------
(* C1: whenever an accepted RequestAt evicts a chunk, HasUpdated is true   *)
(* from the end of that call until Acknowledge, also when the call created *)
(* no chunk.                                                               *)
C1_EvictionRaisesFlag == evictedSinceAck => m_terrainUpdated

(* C2: whenever an accepted RequestAt creates a chunk, HasUpdated is true  *)
(* at the end of that call and in every later state until Acknowledge,     *)
(* whatever calls are made in between.                                     *)
C2_CreationKeepsFlag ==
    /\ (IsRequest(op) /\ op.created > 0) => m_terrainUpdated
    /\ createdSinceAck => m_terrainUpdated

\* a chunk was created, then a request was ignored, and no Acknowledge yet
C2_Witness ==
    /\ createdSinceAck
    /\ IsRequest(op) /\ ~op.accepted
    /\ nreq >= 2

(* C3: the update flag is one slot without history: false after            *)
(* construction, false after Acknowledge however many creating requests    *)
(* came before, false for every poll after Acknowledge until a request     *)
(* updates the chunk set, and cleared by no operation but Acknowledge.     *)
C3_SingleSlot ==
    /\ [](op.name = "TerrainGenerator" => ~m_terrainUpdated)
    /\ [](op.name = "ResetTerrainUpdateFlag" => ~m_terrainUpdated)
    /\ [](op.name = "HasTerrainUpdated" => op.polled = m_terrainUpdated)
    /\ [](m_terrainUpdated => (createdSinceAck \/ evictedSinceAck))
    /\ [][(m_terrainUpdated /\ ~m_terrainUpdated')
             => op'.name = "ResetTerrainUpdateFlag"]_vars

\* two requests created chunks, Acknowledge was called, and a poll now
\* answers false
C3_Witness ==
    /\ op.name = "HasTerrainUpdated" /\ ~op.polled
    /\ nreq >= 2
    /\ Len(m_chunks) > (2 * radius + 1) * (2 * radius + 1)

(* C4: after every accepted RequestAt(c) each coordinate of the window of  *)
(* radius 3 around the chunk coordinate of c has an active chunk, for      *)
(* every chunk scale.                                                      *)
C4_WindowActive ==
    m_lastCenterPos # Sentinel =>
        LET cc == CenterChunk(m_lastCenterPos, m_chunkScale)
        IN  \A dx \in -radius..radius : \A dz \in -radius..radius :
                [x |-> cc.x + dx, z |-> cc.z + dz] \in ActiveCoords

(* C5: every active chunk's representative position is within 1.5 x        *)
(* renderDistance of the last accepted center, and the active set changes  *)
(* only in accepted RequestAt calls.                                       *)
C5_WithinEviction ==
    /\ [](\A i \in 1..Len(m_chunks) : ~BeyondEviction(m_chunks[i], m_lastCenterPos))
    /\ [][(m_chunks' # m_chunks) => (IsRequest(op') /\ op'.accepted)]_vars

\* an accepted request has evicted chunks and kept others
C5_Witness ==
    /\ IsRequest(op) /\ op.accepted /\ op.evicted > 0
    /\ Len(m_chunks) > op.evicted

(* C6: no two active chunks have the same grid coordinate.                 *)
C6_NoDuplicates == Cardinality(ActiveCoords) = Len(m_chunks)

\* the center has returned to a window that was still completely active,
\* with chunks of another window in the store
C6_Witness ==
    /\ IsRequest(op) /\ op.accepted /\ op.created = 0
    /\ Len(m_chunks) > (2 * radius + 1) * (2 * radius + 1)
    /\ \E i \in 1..Len(m_chunks) : GridCoord(m_chunks[i]).x < 0

(* C7: a RequestAt whose center is less than half a chunk scale from the   *)
(* last accepted center changes nothing: no chunk created or evicted, the  *)
(* active set, the last accepted center and the flag are as before.        *)
C7_HysteresisNoOp ==
    [][(IsRequest(op') /\ LessThanHalfScale(op'.center, m_lastCenterPos))
          => /\ m_chunks' = m_chunks
             /\ m_lastCenterPos' = m_lastCenterPos
             /\ m_terrainUpdated' = m_terrainUpdated
             /\ op'.created = 0 /\ op'.evicted = 0 /\ ~op'.accepted]_vars

\* a request was repeated with the center of the preceding accepted call
C7_Witness ==
    /\ IsRequest(op) /\ ~op.accepted
    /\ op.center = m_lastCenterPos
    /\ Len(m_chunks) > 0

(* C8 as stated: after any RequestAt call, ignored ones included, no       *)
(* active chunk is farther than 1.5 x renderDistance from the center of    *)
(* that call.                                                              *)
C8_EvictedAfterAnyRequest ==
    IsRequest(op) =>
        \A i \in 1..Len(m_chunks) : ~BeyondEviction(m_chunks[i], op.center)

\* every vertex of the collision output is a vertex of an active chunk that
\* is within the eviction distance of the point c, and the output holds no
\* more vertices than these chunks have
OutputFromChunksNear(c) ==
    \E near \in {{i \in 1..Len(m_chunks) : ~BeyondEviction(m_chunks[i], c)}} :
      /\ near = 1..Len(m_chunks)
      /\ Len(terrainVertices) = Len(m_chunks) * m_chunkSize * m_chunkSize
      /\ \A k \in near : \A j \in 1..(m_chunkSize * m_chunkSize) :
            terrainVertices[(k - 1) * m_chunkSize * m_chunkSize + j]
                = m_chunks[k].vertices[j]

(* C8 amended: after an accepted RequestAt(c) no active chunk is farther   *)
(* than 1.5 x renderDistance from c, and a GetCollisionData call made      *)
(* then returns vertices of chunks within that distance only.              *)
C8_EvictedAfterAcceptedRequest ==
    /\ (IsRequest(op) /\ op.accepted) =>
          \A i \in 1..Len(m_chunks) : ~BeyondEviction(m_chunks[i], op.center)
    /\ op.name = "GetCollisionData" => OutputFromChunksNear(m_lastCenterPos)

\* collision data was fetched after a request that evicted chunks
C8_Witness ==
    /\ op.name = "GetCollisionData"
    /\ evictedSinceAck
    /\ Len(terrainVertices) > 0

RECURSIVE VertexCountBefore(_, _)
\* V_1 + ... + V_(k-1)
VertexCountBefore(chunks, k) ==
    IF k <= 1 THEN 0
    ELSE VertexCountBefore(chunks, k - 1) + Len(chunks[k - 1].vertices)

RECURSIVE IndexCountBefore(_, _)
\* the number of indices of the chunks 1 .. k-1
IndexCountBefore(chunks, k) ==
    IF k <= 1 THEN 0
    ELSE IndexCountBefore(chunks, k - 1) + Len(chunks[k - 1].indices)

(* C9: after GetCollisionData the vertex list is the concatenation of the  *)
(* active chunks' vertices in store order, every local index i of chunk k  *)
(* appears as i + (V_1 + ... + V_(k-1)), every index is below the vertex   *)
(* count, each triangle stays inside one chunk, and nothing of the lists'  *)
(* previous content is left.                                               *)
C9_CollisionData ==
    op.name = "GetCollisionData" =>
      /\ Len(terrainVertices) = VertexCountBefore(m_chunks, Len(m_chunks) + 1)
      /\ Len(terrainIndices) = IndexCountBefore(m_chunks, Len(m_chunks) + 1)
      /\ \A k \in 1..Len(m_chunks) :
           \E voff \in {VertexCountBefore(m_chunks, k)} :
           \E ioff \in {IndexCountBefore(m_chunks, k)} :
             /\ ioff % 3 = 0
             /\ \A j \in 1..Len(m_chunks[k].vertices) :
                   terrainVertices[voff + j] = m_chunks[k].vertices[j]
             /\ \A i \in 1..Len(m_chunks[k].indices) :
                   /\ terrainIndices[ioff + i] = m_chunks[k].indices[i] + voff
                   /\ terrainIndices[ioff + i] >= voff
                   /\ terrainIndices[ioff + i] < voff + Len(m_chunks[k].vertices)
                   /\ terrainIndices[ioff + i] < Len(terrainVertices)

\* collision data of several chunks was written over lists that held the
\* output of an earlier call made for a different chunk set
C9_Witness ==
    /\ op.name = "GetCollisionData"
    /\ Len(m_chunks) >= 2
    /\ op.prevLen > 0
    /\ op.prevLen # Len(terrainVertices)

\* the positions of the objects appended by the current pass
AcceptedPositions ==
    { objects[i].position : i \in (Len(objects0) + 1)..Len(objects) }

\* the squared distance of two positions
Distance2(p, q) ==
    (p.x - q.x) * (p.x - q.x) + (p.y - q.y) * (p.y - q.y)
        + (p.z - q.z) * (p.z - q.z)

(* C10: at every point of a PlaceObjectsInZone pass, any two positions     *)
(* accepted in the pass are at Euclidean distance >= zone.minDistance, and *)
(* the objects the pass appended carry accepted positions.                 *)
C10_MinimumSpacing ==
    /\ \A i \in 1..Len(usedPositions) : \A j \in 1..Len(usedPositions) :
          i # j => Distance2(usedPositions[i], usedPositions[j])
                      >= zone.minDistance * zone.minDistance
    /\ AcceptedPositions \subseteq { usedPositions[i] : i \in 1..Len(usedPositions) }
    /\ Len(objects) - Len(objects0) \in {Len(usedPositions), Len(usedPositions) - 1}

\* a pass is under way that has accepted three positions after rejecting a
\* candidate for the third
C10_Witness ==
    /\ pc = "while"
    /\ Len(usedPositions) = 3
    /\ attempts > 1
    /\ validPosition

\* a step of the while loop of PlaceObjectsInZone
IsAttemptStep == pc = "while" /\ pc' = "while" /\ attempts' # attempts

\* the for loop moves to the next slot without appending an object
IsSkipStep == pc = "while" /\ pc' = "for" /\ objects' = objects

\* an upper bound of the number of loop steps PlaceObjectsInZone has still
\* to make: 52 for each slot not yet begun (entry, 50 attempts, exit), less
\* the steps made in the current slot, and the return
RemainingSteps ==
    IF pc = "done" THEN 0
    ELSE 1 + (zone.maxObjects - slot) * 52
           - (IF pc = "while" THEN 1 + attempts ELSE 0)

(* C11: PlaceObjectsInZone terminates; a slot gets at most 50 attempts;    *)
(* between 0 and zone.maxObjects objects are appended; a slot is skipped   *)
(* only after 50 rejected attempts, the pass then goes on, and every slot  *)
(* starts with a budget of 50 attempts of its own.                         *)
(* Termination is stated with a variant: a non-negative number that every  *)
(* step of the call decreases, so that the call makes no more than         *)
(* 1 + 52 * zone.maxObjects steps.                                         *)
C11_Terminates ==
    /\ [](RemainingSteps >= 0)
    /\ [][pc # "done" => RemainingSteps' < RemainingSteps]_vars
    /\ [](attempts >= 0 /\ attempts <= 50)
    /\ [](/\ Len(objects) - Len(objects0) >= 0
          /\ Len(objects) - Len(objects0) <= slot
          /\ slot <= zone.maxObjects)
    /\ [](pc = "done" => slot = zone.maxObjects)
    /\ [][IsAttemptStep => attempts' = attempts + 1]_vars
    /\ [][IsSkipStep => (attempts = 50 /\ ~validPosition /\ slot' = slot + 1)]_vars
    /\ [][(pc = "for" /\ pc' = "while") => (attempts' = 0 /\ ~validPosition')]_vars

\* the first slot was skipped and the second slot has found a position
C11_Witness ==
    /\ pc = "while"
    /\ slot = 1
    /\ validPosition
    /\ Len(usedPositions) = 1
    /\ objects = objects0

\* |x| <= 40 and |z| <= 40
InsideWorld(p) == Abs(p.x) <= 400 /\ Abs(p.z) <= 400

(* C12: every position accepted and every object appended by               *)
(* PlaceObjectsInZone has |x| <= 40 and |z| <= 40; an attempt whose        *)
(* candidate is outside leaves the candidate at the zone's height, accepts *)
(* nothing, appends nothing and uses up one attempt of the slot.           *)
C12_WithinBounds ==
    /\ [](\A i \in (Len(objects0) + 1)..Len(objects) : InsideWorld(objects[i].position))
    /\ [](\A i \in 1..Len(usedPositions) : InsideWorld(usedPositions[i]))
    /\ [][(IsAttemptStep /\ ~InsideWorld(position'))
            => /\ position'.y = zone.center.y
               /\ validPosition' = validPosition
               /\ usedPositions' = usedPositions
               /\ objects' = objects
               /\ attempts' = attempts + 1]_vars

\* with a terrain present, a candidate outside the bound was rejected after a
\* position had been accepted
C12_Witness ==
    /\ pc = "while"
    /\ terrainGenerator
    /\ attempts > 0
    /\ ~InsideWorld(position)
    /\ Len(usedPositions) > 0
    /\ ~validPosition

\* the call recorded in placementCall is a call of the named function
Called(name) == placementCall.name = name

\* the 8 points at which GetAreaHeightVariation samples around p with the
\* check radius 2.0 of IsPositionFlat
SamplePoints(p) ==
    { [x |-> p.x + 20, z |-> p.z], [x |-> p.x + 14, z |-> p.z + 14],
      [x |-> p.x, z |-> p.z + 20], [x |-> p.x - 14, z |-> p.z + 14],
      [x |-> p.x - 20, z |-> p.z], [x |-> p.x - 14, z |-> p.z - 14],
      [x |-> p.x, z |-> p.z - 20], [x |-> p.x + 14, z |-> p.z - 14] }

\* |height(q) - height(p)|
HeightGap(p, q) == Abs(GetHeightNoise(q.x, q.z) - GetHeightNoise(p.x, p.z))

\* the height function is the same everywhere: a constant noise field, no
\* octave, or a zero amplitude
ConstantHeight ==
    \/ noiseField \in {"low", "high"}
    \/ m_octaves <= 0
    \/ m_heightScale = 0

(* C13: with a terrain, PlaceOnTerrain returns the input with x and z      *)
(* unchanged and y = max(0.5, GetHeight(x,z) + objectHeight + 1.0); the    *)
(* input's y does not enter the result.                                    *)
C13_SnapToTerrain ==
    (Called("PlaceOnTerrain") /\ placementCall.terrain) =>
        placementResult.position =
            [x |-> placementCall.position.x,
             y |-> Max(5, GetHeightNoise(placementCall.position.x,
                                         placementCall.position.z)
                          + placementCall.arg + 10),
             z |-> placementCall.position.z]

\* a position with y = 7.0 was placed above the minimum height, at another y
C13_Witness ==
    /\ Called("PlaceOnTerrain") /\ placementCall.terrain
    /\ placementCall.position.y = 70
    /\ placementResult.position.y > 5
    /\ placementResult.position.y # 70

(* C14: with a null terrain PlaceOnTerrain and FindNearbyFlatPosition       *)
(* return their input position unchanged in all three coordinates, and     *)
(* IsPositionFlat returns false for every tolerance.                       *)
C14_NullTerrain ==
    ~placementCall.terrain =>
        /\ Called("PlaceOnTerrain") => placementResult.position = placementCall.position
        /\ Called("FindNearbyFlatPosition") => placementResult.position = placementCall.position
        /\ Called("IsPositionFlat") => ~placementResult.flat

\* IsPositionFlat was asked with a null terrain and the tolerance 10
C14_Witness ==
    /\ Called("IsPositionFlat") /\ ~placementCall.terrain
    /\ placementCall.arg = 100
    /\ ~placementResult.flat

(* C15: with a terrain, IsPositionFlat(position, tolerance) is true        *)
(* exactly when |height(sample) - height(position)| <= tolerance for each  *)
(* of the 8 sample points on the check circle; over a constant height      *)
(* function it is true for every tolerance >= 0.                           *)
C15_IsFlat ==
    (Called("IsPositionFlat") /\ placementCall.terrain) =>
        /\ placementResult.flat <=>
              \A q \in SamplePoints(placementCall.position) :
                  HeightGap(placementCall.position, q) <= placementCall.arg
        /\ (ConstantHeight /\ placementCall.arg >= 0) => placementResult.flat

\* a level terrain was found flat with the tolerance 0
C15_Witness ==
    /\ Called("IsPositionFlat") /\ placementCall.terrain
    /\ ConstantHeight
    /\ placementCall.arg = 0
    /\ placementResult.flat

\* the height function jumps by 10 units between two neighbouring points of
\* the line through p along x, inside the check radius 2.0
DiscontinuityInside(p) ==
    \E dx \in (-20)..19 :
        Abs(GetHeightNoise(p.x + dx + 1, p.z) - GetHeightNoise(p.x + dx, p.z)) = 100

(* C16 as stated: over a height function with a discontinuity of 10 units  *)
(* anywhere inside the check radius of the position, IsPositionFlat is     *)
(* false for every tolerance < 10.                                         *)
C16_AnyDiscontinuityDetected ==
    (/\ Called("IsPositionFlat") /\ placementCall.terrain
     /\ placementCall.arg < 100
     /\ DiscontinuityInside(placementCall.position)) => ~placementResult.flat

(* C16 amended: IsPositionFlat is false for every tolerance < 10 when the  *)
(* discontinuity separates the position from at least one of the 8 sample  *)
(* points, so that the height of that sample differs by 10 units or more   *)
(* from the height at the position.                                        *)
C16_SampledDiscontinuityDetected ==
    (/\ Called("IsPositionFlat") /\ placementCall.terrain
     /\ placementCall.arg < 100
     /\ \E q \in SamplePoints(placementCall.position) :
            HeightGap(placementCall.position, q) >= 100) => ~placementResult.flat

\* a step of 10 units lies between the position and some of its sample
\* points, not all, and the tolerance 9.9 was refused
C16_Witness ==
    /\ Called("IsPositionFlat") /\ placementCall.terrain
    /\ noiseField = "step"
    /\ placementCall.arg = 99
    /\ DiscontinuityInside(placementCall.position)
    /\ \E q \in SamplePoints(placementCall.position) :
          HeightGap(placementCall.position, q) = 0
    /\ ~placementResult.flat

\* the vertices of the active chunks, each with the generation parameters
\* its chunk was created with
AllVertices ==
    UNION { { [x |-> m_chunks[i].vertices[j].x, y |-> m_chunks[i].vertices[j].y,
               z |-> m_chunks[i].vertices[j].z, params |-> m_chunks[i].params] :
              j \in 1..Len(m_chunks[i].vertices) } : i \in 1..Len(m_chunks) }

(* C17 as stated: the vertices of active chunks that lie at the same world *)
(* (x,z), on the edge two adjacent chunks share, carry the same height,    *)
(* whatever calls were made between the creation of the two chunks.        *)
C17_SeamsAgree ==
    Cardinality({ [x |-> v.x, z |-> v.z] : v \in AllVertices })
        = Cardinality({ [x |-> v.x, y |-> v.y, z |-> v.z] : v \in AllVertices })

(* C17 amended: the vertices at the same world (x,z) of two adjacent       *)
(* active chunks carry the same height when the two chunks were created    *)
(* under the same noise scale, height scale and octave count, in whatever  *)
(* order and in whichever calls they were created.                         *)
C17_SeamsAgreeSameParams ==
    Cardinality({ [x |-> v.x, z |-> v.z, params |-> v.params] : v \in AllVertices })
        = Cardinality(AllVertices)

\* a second accepted request has added chunks next to chunks of the first,
\* under the same parameters, and a vertex they share is above ground level
C17_Witness ==
    /\ Len(m_chunks) > (2 * radius + 1) * (2 * radius + 1)
    /\ \E i \in 1..((2 * radius + 1) * (2 * radius + 1)) :
       \E j \in ((2 * radius + 1) * (2 * radius + 1) + 1)..Len(m_chunks) :
          /\ m_chunks[i].params = m_chunks[j].params
          /\ \E a \in 1..Len(m_chunks[i].vertices) : \E b \in 1..Len(m_chunks[j].vertices) :
                /\ m_chunks[i].vertices[a].x = m_chunks[j].vertices[b].x
                /\ m_chunks[i].vertices[a].z = m_chunks[j].vertices[b].z
                /\ m_chunks[i].vertices[a].y > 0

\* the sum of the octaves 0 .. oct-1 at (x, z) under the given parameters
RECURSIVE SumOfOctaves(_, _, _, _, _)
SumOfOctaves(field, p, oct, x, z) ==
    IF oct <= 0 THEN 0
    ELSE SumOfOctaves(field, p, oct - 1, x, z)
         + TruncDiv(NoiseValue(field, x * p.noiseScale * Pow2(oct - 1),
                                      z * p.noiseScale * Pow2(oct - 1))
                        * TruncDiv(p.heightScale, Pow2(oct - 1)), 10)

\* max(sum of octaves, -0.1)
ClampedSum(field, p, x, z) == Max(SumOfOctaves(field, p, p.octaves, x, z), -1)

(* C18: the answer of GetHeightAt(x,z) is a function of (x, z) and of the  *)
(* generation parameters alone, whatever the active chunks, the last       *)
(* accepted center and the update flag are, and the call changes none of   *)
(* the store's state.                                                      *)
C18_HeightQueryStateless ==
    /\ [](op.name = "GetHeightAt" =>
            op.height = ClampedSum(noiseField, CurrentParams, op.center.x, op.center.y))
    /\ [][op'.name = "GetHeightAt" =>
            UNCHANGED <<m_chunkSize, m_chunkScale, m_chunks, m_lastCenterPos,
                        m_terrainUpdated, terrainVertices, terrainIndices,
                        m_noiseScale, m_heightScale, m_octaves>>]_vars

\* GetHeightAt was asked at a point where an active chunk has a vertex with
\* another height, stored before a parameter was changed
C18_Witness ==
    /\ op.name = "GetHeightAt"
    /\ \E v \in AllVertices : v.x = op.center.x /\ v.z = op.center.y /\ v.y # op.height

(* C19: no height is below the ground level -0.1: every vertex of every    *)
(* active chunk and every answer of GetHeightAt is max(sum of octaves,     *)
(* -0.1) for the parameters in force when it was computed, also with an    *)
(* octave count of 0 or less.                                              *)
C19_GroundLevel ==
    /\ \A v \in AllVertices :
          v.y >= -1 /\ v.y = ClampedSum(noiseField, v.params, v.x, v.z)
    /\ op.name = "GetHeightAt" => op.height >= -1

\* chunks created with an octave count of 0 or less stand next to chunks
\* with vertices clamped to the ground level
C19_Witness ==
    /\ \E v \in AllVertices : v.params.octaves <= 0 /\ v.y = 0
    /\ \E v \in AllVertices : v.params.octaves > 0 /\ v.y = -1
    /\ \E v \in AllVertices : v.y > 0

\* the squared distance of the centers of two zones
CenterDistance2(a, b) ==
    (a.center.x - b.center.x) * (a.center.x - b.center.x)
        + (a.center.y - b.center.y) * (a.center.y - b.center.y)
        + (a.center.z - b.center.z) * (a.center.z - b.center.z)

(* C20: the zone catalog holds exactly five zones with the themes treasure, *)
(* forest, desert, mountain and grassland; for every two of them the       *)
(* distance of the centers is greater than the sum of the radii; and no    *)
(* operation, a repeated InitializeDefaultLayout included, changes it.     *)
C20_ZoneCatalog ==
    /\ [](Len(zones) = 5)
    /\ []([i \in 1..Len(zones) |-> zones[i].theme]
            = <<"treasure", "forest", "desert", "mountain", "grassland">>)
    /\ [](\A i \in 1..Len(zones) : \A j \in 1..Len(zones) :
            i # j => CenterDistance2(zones[i], zones[j])
                        > (zones[i].radius + zones[j].radius)
                            * (zones[i].radius + zones[j].radius))
    /\ [][zones' = zones]_vars

\* a pass has appended objects and the catalog was initialised once more
C20_Witness ==
    /\ pc = "done"
    /\ op.name = "InitializeDefaultLayout"
    /\ Len(objects) > Len(objects0)

\* the 7 x 7 coordinates around the chunk coordinate cc
Window(cc) ==
    { [x |-> cc.x + dx, z |-> cc.z + dz] : dx \in -radius..radius, dz \in -radius..radius }

(* C21: an accepted RequestAt(c) creates a chunk for exactly those         *)
(* coordinates of the 7 x 7 window around the chunk coordinate of c that   *)
(* had no active chunk before the call and for no other coordinate; from   *)
(* an empty store the request with the center (0,0) creates 49 chunks,     *)
(* with the coordinates {-3..3} x {-3..3}.  The chunk coordinate of c is   *)
(* the one the call computes.                                              *)
C21_WindowFilled ==
    /\ [][(IsRequest(op') /\ op'.accepted) =>
            \E w \in {Window(CenterChunk(op'.center, m_chunkScale))} :
              /\ ActiveCoords' \ ActiveCoords = w \ ActiveCoords
              /\ op'.created = Cardinality(w \ ActiveCoords)
              /\ Len(m_chunks') = Len(m_chunks) + op'.created - op'.evicted]_vars
    /\ []((IsRequest(op) /\ nreq = 1 /\ op.center = [x |-> 0, y |-> 0]) =>
            /\ op.accepted /\ op.created = 49
            /\ Len(m_chunks) = 49
            /\ ActiveCoords = Window([x |-> 0, z |-> 0]))

\* a request found a part of its window active and created the rest
C21_Witness ==
    /\ IsRequest(op) /\ op.accepted
    /\ op.created > 0
    /\ op.created < (2 * radius + 1) * (2 * radius + 1)
    /\ Len(m_chunks) > (2 * radius + 1) * (2 * radius + 1)

\* floor(c / chunkScale) on both axes
FloorChunk(c) == [x |-> c.x \div m_chunkScale, z |-> c.y \div m_chunkScale]

(* C23: after an accepted RequestAt(c) the window is the one around        *)
(* floor(c / chunkScale): the chunk that contains c is in the middle of    *)
(* the window, for centers with negative coordinates too.                  *)
C23_WindowAroundFloor ==
    (IsRequest(op) /\ op.accepted) =>
        /\ CenterChunk(op.center, m_chunkScale) = FloorChunk(op.center)
        /\ Window(FloorChunk(op.center)) \subseteq ActiveCoords

(* C25: a RequestAt(c) is accepted exactly when c is at least half a       *)
(* chunk scale from the last accepted center, which is the sentinel        *)
(* (-9999,-9999) after construction and is moved by accepted calls only;   *)
(* so the first request of a drift that is that far from the last accepted *)
(* center is accepted, whatever the displacements between the calls.       *)
C25_HysteresisReference ==
    /\ [](op.name = "TerrainGenerator" => m_lastCenterPos = Sentinel)
    /\ [][IsRequest(op') =>
            (op'.accepted <=> ~LessThanHalfScale(op'.center, m_lastCenterPos))]_vars
    /\ [][m_lastCenterPos' = IF IsRequest(op') /\ op'.accepted THEN op'.center
                             ELSE m_lastCenterPos]_vars

\* the third request of a drift was accepted: the second one, less than 4.0
\* from the first, had been ignored, and the third is less than 4.0 further
C25_Witness ==
    /\ nreq = 3
    /\ IsRequest(op) /\ op.accepted
    /\ m_lastCenterPos = op.center

\* the positions of the vertices the terrain bodies were built from
BodyVertices ==
    UNION { { m_terrainBodies[b].vertices[j] : j \in 1..Len(m_terrainBodies[b].vertices) } :
            b \in 1..Len(m_terrainBodies) }

\* the positions of the vertices of the active chunks
ActiveVertices == { [x |-> v.x, y |-> v.y, z |-> v.z] : v \in AllVertices }

IsSetter(o) == o.name \in {"SetNoiseScale", "SetHeightScale", "SetOctaves"}

(* C24: SetNoiseScale, SetHeightScale and SetOctaves leave the active      *)
(* chunks with their vertices and indices, the last accepted center and    *)
(* the update flag as they were and create nothing; GetHeightAt answers    *)
(* with the parameters as they are now, and every active chunk keeps the   *)
(* heights of the parameters in force when it was created.                 *)
C24_SettersAffectNewChunksOnly ==
    /\ [][IsSetter(op') =>
            /\ UNCHANGED <<m_chunks, m_lastCenterPos, m_terrainUpdated,
                           m_chunkSize, m_chunkScale>>
            /\ op'.created = 0 /\ op'.evicted = 0]_vars
    /\ [](op.name = "GetHeightAt" =>
            op.height = Max(SumOfOctaves(noiseField, CurrentParams, m_octaves,
                                         op.center.x, op.center.y), -1))
    /\ [](\A i \in 1..Len(m_chunks) : \A j \in 1..Len(m_chunks[i].vertices) :
            m_chunks[i].vertices[j].y =
                ClampedSum(noiseField, m_chunks[i].params,
                           m_chunks[i].vertices[j].x, m_chunks[i].vertices[j].z))

\* after a setter call GetHeightAt gives, at a vertex of an active chunk,
\* another height than the chunk holds: the chunk was not regenerated
C24_Witness ==
    /\ op.name = "GetHeightAt"
    /\ nset > 0
    /\ m_terrainUpdated
    /\ \E i \in 1..Len(m_chunks) :
          /\ m_chunks[i].params # CurrentParams
          /\ m_chunks[i].vertices[1].x = op.center.x
          /\ m_chunks[i].vertices[1].z = op.center.y
          /\ m_chunks[i].vertices[1].y # op.height

\* the height is above 0.6 x heightScale
AboveMountainLine(q) == 10 * q.height > 6 * q.heightScale

(* C30: DetermineBiome gives every (height, moisture) pair exactly one of  *)
(* the four biomes: Mountain exactly when height > 0.6 x heightScale,      *)
(* whatever the moisture; below that Desert exactly when moisture < -0.2,  *)
(* Forest exactly when moisture > 0.3, Grassland otherwise; the values     *)
(* height = 0.6 x heightScale, moisture = -0.2 and moisture = 0.3 belong   *)
(* to the next rule.                                                       *)
C30_Classify ==
    biomeQuery.biome # "none" =>
        /\ biomeQuery.biome \in {"MOUNTAIN", "DESERT", "FOREST", "GRASSLAND"}
        /\ biomeQuery.biome = "MOUNTAIN" <=> AboveMountainLine(biomeQuery)
        /\ biomeQuery.biome = "DESERT" <=>
               (~AboveMountainLine(biomeQuery) /\ biomeQuery.moisture < -2)
        /\ biomeQuery.biome = "FOREST" <=>
               (~AboveMountainLine(biomeQuery) /\ biomeQuery.moisture > 3)
        /\ biomeQuery.biome = "GRASSLAND" <=>
               (/\ ~AboveMountainLine(biomeQuery)
                /\ biomeQuery.moisture >= -2 /\ biomeQuery.moisture <= 3)

\* after SetHeightScale(2.0f), a height of exactly 0.6 x heightScale with
\* the moisture -0.2 was classified as grassland
C30_Witness ==
    /\ biomeQuery.heightScale = 20
    /\ biomeQuery.height = 12
    /\ biomeQuery.moisture = -2
    /\ biomeQuery.biome = "GRASSLAND"

\* the chunk is ready: marked generated, with a vertex list that is not empty
ChunkReady(chunk) == chunk.isGenerated /\ Len(chunk.vertices) > 0

\* the chunk new is the chunk old as far as the program stores it
SameChunk(old, new) ==
    /\ new.vertices = old.vertices
    /\ new.indices = old.indices
    /\ new.biome = old.biome
    /\ new.isGenerated = old.isGenerated

(* C28: every active chunk is ready, with all the vertices and indices of  *)
(* its grid, so that GetCollisionData collects the vertices of every       *)
(* active chunk; and whatever step is taken (a request, a setter, a        *)
(* collision query), a chunk that is active before and after the step has  *)
(* the same vertices, indices and dominant biome after it as before.       *)
C28_ReadyAndImmutable ==
    /\ [](\A i \in 1..Len(m_chunks) :
            /\ ChunkReady(m_chunks[i])
            /\ Len(m_chunks[i].vertices) = m_chunkSize * m_chunkSize
            /\ Len(m_chunks[i].indices) = 6 * (m_chunkSize - 1) * (m_chunkSize - 1))
    /\ [](op.name = "GetCollisionData" =>
            Len(terrainVertices) = Len(m_chunks) * m_chunkSize * m_chunkSize)
    /\ [][\A i \in 1..Len(m_chunks) : \A j \in 1..Len(m_chunks') :
            GridCoord(m_chunks[i]) = GridCoord(m_chunks'[j]) =>
                SameChunk(m_chunks[i], m_chunks'[j])]_vars

\* a request has evicted chunks from a store that holds chunks created
\* before a setter call next to chunks created after it
C28_Witness ==
    /\ op.name = "GenerateTerrainAt"
    /\ op.evicted > 0
    /\ \E i, j \in 1..Len(m_chunks) :
          /\ m_chunks[i].params.octaves # m_chunks[j].params.octaves
          /\ m_chunks[j].params = CurrentParams

\* the position the loops of FindNearbyFlatPosition test at step k
\* (k = 0 is radius 1, angle 0)
Candidate(center, k) ==
    [center EXCEPT
        !.x = center.x + RoundDiv(10 * ((k \div 12) + 1) * Cos12(k % 12), 1000),
        !.z = center.z + RoundDiv(10 * ((k \div 12) + 1) * Sin12(k % 12), 1000)]

\* the number of steps the loops make for a search radius: 12 for every
\* whole radius 1, 2, ... that is not above searchRadius
NumCandidates(searchRadius) == IF searchRadius < 10 THEN 0 ELSE 12 * (searchRadius \div 10)

\* the height variation FindNearbyFlatPosition measures at p
Variation(p) == GetAreaHeightVariation(p, TRUE, 15)

\* FindNearbyFlatPosition was called with a terrain
Searched == Called("FindNearbyFlatPosition") /\ placementCall.terrain

\* the steps at which the candidate has a variation of 0.3 or less
FlatSteps ==
    { k \in 0..(NumCandidates(placementCall.arg) - 1) :
        Variation(Candidate(placementCall.position, k)) <= 3 }

\* p and q have the same x and z
SameXZ(p, q) == p.x = q.x /\ p.z = q.z

(* C26: FindNearbyFlatPosition examines the candidates in the order of its *)
(* loops (radius 1, 2, ... and for each the angles 0, 30, ..., 330) after  *)
(* the center; when the variation at the center is at most 0.3 it returns   *)
(* the center with x and z unchanged and examines no candidate; otherwise,  *)
(* when some candidate has a variation of at most 0.3, it returns the first *)
(* such candidate in that order and examines none after it.                *)
C26_FirstFlatReturned ==
    Searched =>
        /\ \A i \in 1..Len(searchTrace) :
              searchTrace[i] = Candidate(placementCall.position, i - 1)
        /\ Variation(placementCall.position) <= 3 =>
              /\ searchTrace = << >>
              /\ SameXZ(placementResult.position, placementCall.position)
        /\ (Variation(placementCall.position) > 3 /\ FlatSteps # {}) =>
              \E first \in FlatSteps :
                /\ \A k \in FlatSteps : first <= k
                /\ Len(searchTrace) = first + 1
                /\ SameXZ(placementResult.position,
                          Candidate(placementCall.position, first))

\* the search went past a candidate that is not flat and stopped at a flat
\* one before the loops were through
C26_Witness ==
    /\ Searched
    /\ Variation(placementCall.position) > 3
    /\ Len(searchTrace) >= 2
    /\ Len(searchTrace) < NumCandidates(placementCall.arg)
    /\ SameXZ(placementResult.position, searchTrace[Len(searchTrace)])

\* the variation at step k of the search order that starts with the center
\* (k = 0) and goes on with the candidates
VariationAt(k) ==
    IF k = 0 THEN Variation(placementCall.position)
    ELSE Variation(Candidate(placementCall.position, k - 1))

\* the position at step k of that order
PositionAt(k) ==
    IF k = 0 THEN placementCall.position
    ELSE Candidate(placementCall.position, k - 1)

\* the offset of step k of the loops, before it is added to the center, is
\* not longer than searchRadius (thousandths of tenths)
OffsetWithinRadius(k, searchRadius) ==
    LET dx == 10 * ((k \div 12) + 1) * Cos12(k % 12)
        dz == 10 * ((k \div 12) + 1) * Sin12(k % 12)
    IN  dx * dx + dz * dz <= (1000 * searchRadius) * (1000 * searchRadius)

(* C27: FindNearbyFlatPosition examines at most 12 x searchRadius          *)
(* candidates; when neither the center nor a candidate has a variation of  *)
(* at most 0.3 it examines them all and returns the position of least      *)
(* variation among the center and the candidates, the earliest of the      *)
(* search order among equals; and whatever it returns is the center or a   *)
(* candidate whose offset is not longer than searchRadius, with y the      *)
(* terrain height at its x and z.                                          *)
C27_BestReturned ==
    Searched =>
        /\ Len(searchTrace) <= NumCandidates(placementCall.arg)
        /\ 10 * NumCandidates(placementCall.arg) <= 12 * placementCall.arg
        /\ (\A k \in 0..NumCandidates(placementCall.arg) : VariationAt(k) > 3) =>
              /\ Len(searchTrace) = NumCandidates(placementCall.arg)
              /\ \E best \in 0..NumCandidates(placementCall.arg) :
                    /\ \A k \in 0..NumCandidates(placementCall.arg) :
                          /\ VariationAt(best) <= VariationAt(k)
                          /\ VariationAt(best) = VariationAt(k) => best <= k
                    /\ SameXZ(placementResult.position, PositionAt(best))
        /\ \/ SameXZ(placementResult.position, placementCall.position)
           \/ \E k \in 0..(NumCandidates(placementCall.arg) - 1) :
                 /\ SameXZ(placementResult.position,
                           Candidate(placementCall.position, k))
                 /\ OffsetWithinRadius(k, placementCall.arg)
        /\ placementResult.position.y =
               GetHeightAtValue(placementResult.position.x, placementResult.position.z)

\* no position was flat, all 24 candidates were examined, and the one
\* returned has a later candidate of the same variation
C27_Witness ==
    /\ Searched
    /\ \A k \in 0..NumCandidates(placementCall.arg) : VariationAt(k) > 3
    /\ Len(searchTrace) = 24
    /\ ~SameXZ(placementResult.position, placementCall.position)
    /\ \E k \in 1..24 :
          /\ SameXZ(placementResult.position, PositionAt(k))
          /\ \E later \in (k + 1)..24 : VariationAt(later) = VariationAt(k)

\* the number of objects the pass has appended so far
Appended == Len(objects) - Len(objects0)

(* C29: PlaceObjectsInZone leaves the entries the caller's list had at the  *)
(* call where and as they were and only appends: one object for every slot  *)
(* that found a position, at that position, in the order of the slots.  A   *)
(* candidate inside the terrain bound is accepted exactly when it is at     *)
(* least minDistance from every position accepted earlier in the same call; *)
(* the objects that were in the list at the call are not looked at.         *)
C29_AppendsOnly ==
    /\ [](/\ Appended >= 0
          /\ SubSeq(objects, 1, Len(objects0)) = objects0)
    /\ [](/\ Len(usedPositions) =
                Appended + (IF pc = "while" /\ validPosition THEN 1 ELSE 0)
          /\ \A i \in 1..Appended :
                objects[Len(objects0) + i].position = usedPositions[i])
    /\ [][IsAttemptStep =>
            (validPosition' <=>
                /\ IsWithinTerrainBounds(position')
                /\ CheckMinimumDistance(position', usedPositions,
                                        zone.minDistance))]_vars

\* the pass has returned with an object appended closer than minDistance to
\* an object that was in the list at the call
C29_Witness ==
    /\ pc = "done"
    /\ Appended > 0
    /\ \E i \in 1..Len(objects0) : \E j \in (Len(objects0) + 1)..Len(objects) :
          TooClose(objects[j].position, objects0[i].position, zone.minDistance)

====
